---- MODULE Spec2Model ----
(***************************************************************************)
(* Model of the `round` program (src/round): one bidding round, its        *)
(* vouchers, its two custody wallets and the instructions that act on      *)
(* them, together with the redemption arithmetic of state.rs.              *)
(*                                                                         *)
(* Every instruction is one atomic transaction: it either applies all of   *)
(* its effects or, on any error, none of them.  An instruction is modelled *)
(* by an operator X_result(..) that computes the outcome of the handler    *)
(* ("Ok" or the name of the error it returns first) in the current state,  *)
(* and an action X that is enabled when the outcome is "Ok" and applies    *)
(* the effects.  A transaction that returns an error is not a step: it     *)
(* leaves every account as it was.                                         *)
(***************************************************************************)
EXTENDS Integers, Naturals, Sequences, FiniteSets, TLC

VARIABLES
    now,              \* Clock::get()?.unix_timestamp
    round_state,      \* "uninit" | "open" | "closed": life of the Round account
    round,            \* the Round account
    voucher,          \* user -> Voucher account at [VOUCHER_SEED, round, user]
    offchain_voucher, \* user -> Voucher account at [OFFCHAIN_VOUCHER_SEED, round, user]
    bid_wallet,       \* token account at [BID_SEED, round]
    offer_wallet,     \* token account at [OFFER_SEED, round]
    user_wallet,      \* user -> bid asset held by the user
    user_offer_wallet, \* user -> offer asset held by the user
    recipient_bid,    \* bid asset received by round.recipient
    return_wallet,    \* balance of the offer source wallet (= round.return_wallet)
    redeemed,         \* history: number of successful redeems and the bids they closed
    last,             \* the last transaction that succeeded at the current clock value
    calc              \* inputs and result of a stand-alone calculate_redeem_amount call

vars == <<now, round_state, round, voucher, offchain_voucher, bid_wallet,
          offer_wallet, user_wallet, user_offer_wallet, recipient_bid, return_wallet,
          redeemed, last, calc>>

roundVars == <<now, round_state, round, voucher, offchain_voucher, bid_wallet,
               offer_wallet, user_wallet, user_offer_wallet, recipient_bid, return_wallet,
               redeemed, last>>

----------------------------------------------------------------------------
(* Bounds of the model *)

MaxOffer == 3
MaxTarget == 3
UserFunds == 2
MaxOffchain == 1
MaxCalc == 6

(* Program constants and the fixture of the unit tests *)

WITHDRAWAL_ENABLED_AFTER_INACTIVITY_TIMEOUT == 7 * 24 * 60 * 60

BiddingStart == 1000
BiddingEnd == 2000

Users == {"u1", "u2"}
Heir == "heir"
Oracle == "oracle"
Other == "other"
DefaultPubkey == "default"

Pending == "Pending"
Accepted == "Accepted"
Rejected == "Rejected"
Reconciliation == "Reconciliation"

None == [some |-> FALSE, val |-> 0]
Some(x) == [some |-> TRUE, val |-> x]

HeirTimeoutDate == BiddingEnd + WITHDRAWAL_ENABLED_AFTER_INACTIVITY_TIMEOUT

\* clock values on both sides of, and exactly at, every deadline the code compares with
Times == {BiddingStart - 500, BiddingStart, BiddingStart + 500, BiddingEnd,
          BiddingEnd + 1, HeirTimeoutDate, HeirTimeoutDate + 1}

\* (bidding_start, bidding_end) pairs offered to create_round
Windows == {<<BiddingStart, BiddingEnd>>, <<BiddingEnd, BiddingEnd>>,
            <<BiddingEnd, BiddingStart>>}

\* delegated offer amounts of create_round: none, and the two largest
OfferAmounts == {0, MaxOffer - 1, MaxOffer}

\* target_bid of create_round: 0 (rounds created before it was mandatory) or a goal
TargetBids == {0, MaxTarget}

Max(a, b) == IF a >= b THEN a ELSE b

RECURSIVE SumOver(_, _)
SumOver(f, S) ==
    IF S = {} THEN 0
    ELSE LET x == CHOOSE y \in S : TRUE IN f[x] + SumOver(f, S \ {x})

----------------------------------------------------------------------------
(* state.rs: the time and status rules of Round.  Each returns "Ok" or the *)
(* name of the RoundError the code returns first.                          *)

heir_timeout_date(r) ==
    r.bidding_end + WITHDRAWAL_ENABLED_AFTER_INACTIVITY_TIMEOUT

can_withdraw_due_heir_inactivity(r, t) == t > heir_timeout_date(r)

\* variant of assert_can_accept_or_reject without the check of the status
assert_can_accept_or_reject_any_status(r, t) ==
    IF can_withdraw_due_heir_inactivity(r, t) THEN "OfferTimedOut"
    ELSE IF t < r.bidding_end THEN "BiddingStillGoing"
    ELSE "Ok"

\* variant of assert_can_accept_or_reject without the heir timeout
assert_can_accept_or_reject_no_timeout(r, t) ==
    IF r.status # Pending THEN "OfferIsNotPending"
    ELSE IF t < r.bidding_end THEN "BiddingStillGoing"
    ELSE "Ok"

assert_can_accept_or_reject(r, t) ==
    IF r.status # Pending THEN "OfferIsNotPending"
    ELSE IF can_withdraw_due_heir_inactivity(r, t) THEN "OfferTimedOut"
    ELSE IF t < r.bidding_end THEN "BiddingStillGoing"
    ELSE "Ok"

\* variant of assert_can_contribute that closes the window at bidding_end
assert_can_contribute_end_exclusive(r, t) ==
    IF t < r.bidding_start THEN "BiddingNotStarted"
    ELSE IF r.bidding_end <= t THEN "BiddingEnded"
    ELSE "Ok"

assert_can_contribute(r, t) ==
    IF t < r.bidding_start THEN "BiddingNotStarted"
    ELSE IF r.bidding_end < t THEN "BiddingEnded"
    ELSE "Ok"

\* variant of assert_can_contribute_offchain that also admits Accepted
assert_can_contribute_offchain_or_accepted(r) ==
    IF r.status \notin {Reconciliation, Accepted}
    THEN "CantContributeFiatNotInReconciliation"
    ELSE "Ok"

assert_can_contribute_offchain(r) ==
    IF r.status # Reconciliation THEN "CantContributeFiatNotInReconciliation"
    ELSE "Ok"

assert_can_finish_reconciliation(r) ==
    IF r.status # Reconciliation THEN "CantContributeFiatNotInReconciliation"
    ELSE "Ok"

\* variants of assert_can_withdraw with one rule changed
assert_can_withdraw_no_escape(r, t, user_is_signer) ==
    IF t < r.bidding_start THEN "BiddingNotStarted"
    ELSE IF r.status = Reconciliation THEN "CantWithdrawAcceptedOffer"
    ELSE IF r.status = Accepted THEN "CantWithdrawDuringReconciliation"
    ELSE IF /\ r.status = Pending
            /\ t > r.bidding_end
            /\ ~can_withdraw_due_heir_inactivity(r, t)
         THEN "InactivityTimeoutHasNotPassed"
    ELSE IF ~user_is_signer THEN "CantWithdrawWithoutUserSignature"
    ELSE "Ok"

assert_can_withdraw_no_heir_window(r, t, user_is_signer) ==
    IF t < r.bidding_start THEN "BiddingNotStarted"
    ELSE IF r.status = Reconciliation THEN "CantWithdrawAcceptedOffer"
    ELSE IF r.status = Accepted THEN "CantWithdrawDuringReconciliation"
    ELSE IF ~user_is_signer /\ ~can_withdraw_due_heir_inactivity(r, t)
         THEN "CantWithdrawWithoutUserSignature"
    ELSE "Ok"

assert_can_withdraw_window_unsigned_only(r, t, user_is_signer) ==
    IF t < r.bidding_start THEN "BiddingNotStarted"
    ELSE IF r.status = Reconciliation THEN "CantWithdrawAcceptedOffer"
    ELSE IF r.status = Accepted THEN "CantWithdrawDuringReconciliation"
    ELSE IF /\ r.status = Pending
            /\ ~user_is_signer
            /\ t > r.bidding_end
            /\ ~can_withdraw_due_heir_inactivity(r, t)
         THEN "InactivityTimeoutHasNotPassed"
    ELSE IF ~user_is_signer /\ t < r.bidding_end
         THEN "CantWithdrawWithoutUserSignature"
    ELSE "Ok"

\* variant that asks for the user's signature up to and including bidding_end
assert_can_withdraw_signature_at_bidding_end(r, t, user_is_signer) ==
    IF t < r.bidding_start THEN "BiddingNotStarted"
    ELSE IF r.status = Reconciliation THEN "CantWithdrawAcceptedOffer"
    ELSE IF r.status = Accepted THEN "CantWithdrawDuringReconciliation"
    ELSE IF /\ r.status = Pending
            /\ t > r.bidding_end
            /\ ~can_withdraw_due_heir_inactivity(r, t)
         THEN "InactivityTimeoutHasNotPassed"
    ELSE IF ~user_is_signer /\ t <= r.bidding_end
         THEN "CantWithdrawWithoutUserSignature"
    ELSE "Ok"

assert_can_withdraw(r, t, user_is_signer) ==
    IF t < r.bidding_start THEN "BiddingNotStarted"
    ELSE IF r.status = Reconciliation THEN "CantWithdrawAcceptedOffer"
    ELSE IF r.status = Accepted THEN "CantWithdrawDuringReconciliation"
    ELSE IF /\ r.status = Pending
            /\ t > r.bidding_end
            /\ ~can_withdraw_due_heir_inactivity(r, t)
         THEN "InactivityTimeoutHasNotPassed"
    ELSE IF ~user_is_signer /\ t < r.bidding_end
         THEN "CantWithdrawWithoutUserSignature"
    ELSE "Ok"

assert_can_reject_bid(r, t) ==
    IF r.status # Pending THEN "OfferIsNotPending"
    ELSE IF t < r.bidding_end THEN "BiddingStillGoing"
    ELSE IF t > heir_timeout_date(r) THEN "OfferTimedOut"
    ELSE "Ok"

\* variant of assert_can_redeem that also admits Reconciliation
assert_can_redeem_in_reconciliation(r) ==
    IF r.status \notin {Accepted, Reconciliation}
    THEN "CantRedeemNotAcceptedRound" ELSE "Ok"

assert_can_redeem(r) ==
    IF r.status # Accepted THEN "CantRedeemNotAcceptedRound" ELSE "Ok"

\* variant of assert_can_cancel without the check of the clock
assert_can_cancel_any_time(r, t) == "Ok"

assert_can_cancel(r, t) ==
    IF t > r.bidding_start THEN "CantCancelStartedRound" ELSE "Ok"

assert_can_close(r, t) ==
    IF r.vouchers_count > 0 THEN "VouchersNotWithdrawn"
    ELSE IF r.status \in {Accepted, Rejected} THEN "Ok"
    ELSE IF r.status = Pending /\ t > heir_timeout_date(r) THEN "Ok"
    ELSE IF r.status = Pending THEN "CantCloseBeforeHeirTimeout"
    ELSE "CantCloseDuringReconciliation"

----------------------------------------------------------------------------
(* The fixed-point numbers calculate_redeem_amount computes with.          *)
(* PreciseNumber holds value * 10^12 in a 256-bit integer.  Here the       *)
(* scaled value is a little-endian tuple of five limbs in base 1000:       *)
(*   <<l1, l2, l3, l4, l5>>  =  l1 + 10^3 l2 + 10^6 l3 + 10^9 l4 + 10^12 l5 *)
(* so l1..l4 are the twelve decimals and l5 (unbounded) the integer part.  *)
(* None (checked arithmetic failed) is the empty tuple.                    *)

Limb == 1000
PNone == << >>

\* PreciseNumber::new(value): value * ONE
PreciseNew(x) == <<0, 0, 0, 0, x>>

\* a / d for a scaled value a and an integer d >= 1, rounded down: long
\* division from the most significant limb.  k is the limb being divided,
\* rem the remainder carried down from the limbs above it.
RECURSIVE LimbDiv(_, _, _, _)
LimbDiv(a, d, k, rem) ==
    IF k = 0 THEN << >>
    ELSE LET cur == rem * (IF k = 5 THEN 1 ELSE Limb) + a[k]
         IN  Append(LimbDiv(a, d, k - 1, cur % d), cur \div d)

\* checked_div(self, rhs) with rhs = PreciseNumber::new(d):
\*   (self.value * ONE + ONE/2) / rhs.value, None when rhs is zero.
\* rhs.value = d * ONE, and self.value * ONE is a multiple of ONE, so the
\* correction ONE/2 never reaches the quotient: the result is
\* floor(self.value / d).
PreciseDiv(a, b) ==
    IF a = PNone \/ b = PNone THEN PNone
    ELSE IF b[5] = 0 THEN PNone
    ELSE LimbDiv(a, b[5], 5, 0)

\* self * t for an integer t: limb by limb with carry, k from 1 to 5
RECURSIVE LimbMul(_, _, _, _)
LimbMul(a, t, k, carry) ==
    IF k = 5 THEN <<a[5] * t + carry>>
    ELSE LET cur == a[k] * t + carry
         IN  <<cur % Limb>> \o LimbMul(a, t, k + 1, cur \div Limb)

\* checked_mul(self, rhs) with rhs = PreciseNumber::new(t):
\*   (self.value * rhs.value + ONE/2) / ONE = self.value * t
PreciseMul(a, b) ==
    IF a = PNone \/ b = PNone THEN PNone
    ELSE LimbMul(a, b[5], 1, 0)

\* variant of ToImprecise without the rounding correction
ToImpreciseFloor(a) ==
    IF a = PNone THEN -1 ELSE a[5]

\* to_imprecise(self): (self.value + ONE/2) / ONE; None is -1
ToImprecise(a) ==
    IF a = PNone THEN -1
    ELSE a[5] + ((a[4] + Limb \div 2) \div Limb)

\* variants of calculate_redeem_amount: dividing by target_bid alone, and
\* dividing in integers before multiplying
calculate_redeem_amount_target_only(target_bid, bid_balance, user_bid, total_offer) ==
    ToImprecise(PreciseMul(PreciseDiv(PreciseNew(user_bid), PreciseNew(target_bid)),
                           PreciseNew(total_offer)))

calculate_redeem_amount_integer_division(target_bid, bid_balance, user_bid, total_offer) ==
    IF Max(target_bid, bid_balance) = 0 THEN -1
    ELSE (user_bid \div Max(target_bid, bid_balance)) * total_offer

\* calculate_redeem_amount; -1 stands for None

calculate_redeem_amount(target_bid, bid_balance, user_bid, total_offer) ==
    LET bid == Max(target_bid, bid_balance)
        target == PreciseNew(bid)
        user == PreciseNew(user_bid)
        total == PreciseNew(total_offer)
    IN  ToImprecise(PreciseMul(PreciseDiv(user, target), total))

----------------------------------------------------------------------------
(* Accounts *)

\* Round::default(), the contents of a Round account before create_round
DefaultRound ==
    [status |-> Pending, heir |-> DefaultPubkey, vouchers_count |-> 0,
     bidding_start |-> 0, bidding_end |-> 0,
     total_bid |-> None, total_offer |-> None, target_bid |-> 0,
     reconciliation_authority |-> DefaultPubkey]

\* a Voucher account that does not exist; init_if_needed creates it zeroed
NoVoucher ==
    [open |-> FALSE, user |-> DefaultPubkey, payer |-> DefaultPubkey,
     amount_contributed |-> 0, is_fiat |-> FALSE]

NoWallet == [open |-> FALSE, amount |-> 0, is_native |-> FALSE]

NoCall == [op |-> "none", user |-> DefaultPubkey, caller |-> DefaultPubkey,
           signed |-> FALSE]

\* op: the instruction; user: the user account it names; caller: the
\* authority that signed it; signed: whether the user account signed.
\* contribute and record_offchain_contribution add `first` (the call found no
\* voucher of the user), the latter also `amount` (its argument).
Call(op, user, caller, signed) ==
    [op |-> op, user |-> user, caller |-> caller, signed |-> signed]

CalcIdle == [target_bid |-> 0, bid_balance |-> 0, user_wallet |-> 0,
             total_offer |-> 0, done |-> FALSE, result |-> 0]

InitRound ==
    /\ now = BiddingStart - 500
    /\ round_state = "uninit"
    /\ round = DefaultRound
    /\ voucher = [u \in Users |-> NoVoucher]
    /\ offchain_voucher = [u \in Users |-> NoVoucher]
    /\ bid_wallet = NoWallet
    /\ offer_wallet = NoWallet
    /\ user_wallet = [u \in Users |-> UserFunds]
    /\ user_offer_wallet = [u \in Users |-> 0]
    /\ recipient_bid = 0
    /\ return_wallet = MaxOffer
    /\ redeemed = [count |-> 0, bids |-> 0]
    /\ last = NoCall

Init ==
    /\ InitRound
    /\ calc = CalcIdle

\* the host clock: non-decreasing, read at the start of each instruction
Tick ==
    /\ \E t \in Times : t > now /\ now' = t
    /\ last' = NoCall
    /\ UNCHANGED <<round_state, round, voucher, offchain_voucher, bid_wallet,
                   offer_wallet, user_wallet, user_offer_wallet, recipient_bid,
                   return_wallet, redeemed, calc>>

----------------------------------------------------------------------------
(* lib.rs: create_round *)

\* variant of create_round_result without the check of the interval
create_round_result_no_interval_check(w, offer_amount) ==
    IF offer_amount = 0 THEN "NoDelegatedAmount"
    ELSE IF return_wallet < offer_amount THEN "InsufficientFunds"
    ELSE "Ok"

create_round_result(w, offer_amount) ==
    IF offer_amount = 0 THEN "NoDelegatedAmount"
    ELSE IF w[1] >= w[2] THEN "SuspiciousOfferInterval"
    ELSE IF return_wallet < offer_amount THEN "InsufficientFunds"
    ELSE "Ok"

create_round(w, offer_amount, target, native) ==
    /\ round_state = "uninit"
    /\ create_round_result(w, offer_amount) = "Ok"
    /\ last' = Call("create_round", DefaultPubkey, Heir, TRUE)
    /\ return_wallet' = return_wallet - offer_amount
    /\ offer_wallet' = [open |-> TRUE, amount |-> offer_amount,
                        is_native |-> FALSE]
    /\ bid_wallet' = [open |-> TRUE, amount |-> 0, is_native |-> native]
    /\ round' = [DefaultRound EXCEPT
                    !.status = Pending,
                    !.bidding_start = w[1],
                    !.bidding_end = w[2],
                    !.heir = Heir,
                    !.vouchers_count = 0,
                    !.total_bid = None,
                    !.total_offer = Some(offer_amount),
                    !.target_bid = target]
    /\ round_state' = "open"
    /\ UNCHANGED <<now, voucher, offchain_voucher, user_wallet, user_offer_wallet,
                   recipient_bid, redeemed, calc>>

----------------------------------------------------------------------------
(* lib.rs: contribute *)

contribute_result(u, amount_to_deposit) ==
    IF round_state # "open" THEN "AccountNotInitialized"
    ELSE IF ~bid_wallet.open THEN "AccountNotInitialized"
    ELSE IF assert_can_contribute(round, now) # "Ok"
         THEN assert_can_contribute(round, now)
    ELSE IF amount_to_deposit = 0 THEN "NoDelegatedAmount"
    ELSE IF user_wallet[u] < amount_to_deposit THEN "InsufficientFunds"
    ELSE "Ok"

\* variant of contribute that counts a voucher on every call
contribute_counts_every_call(u, amount_to_deposit, payer) ==
    /\ contribute_result(u, amount_to_deposit) = "Ok"
    /\ last' = Call("contribute", u, u, TRUE)
                  @@ [first |-> voucher[u].payer = DefaultPubkey]
    /\ user_wallet' = [user_wallet EXCEPT ![u] = @ - amount_to_deposit]
    /\ bid_wallet' = [bid_wallet EXCEPT !.amount = @ + amount_to_deposit]
    /\ voucher' = [voucher EXCEPT ![u] =
                     [open |-> TRUE, user |-> u,
                      payer |-> IF voucher[u].payer # DefaultPubkey
                                THEN voucher[u].payer ELSE payer,
                      amount_contributed |->
                          voucher[u].amount_contributed + amount_to_deposit,
                      is_fiat |-> voucher[u].is_fiat]]
    /\ round' = [round EXCEPT !.vouchers_count = @ + 1]
    /\ UNCHANGED <<now, round_state, offchain_voucher, offer_wallet,
                   user_offer_wallet, recipient_bid, return_wallet, redeemed, calc>>

contribute(u, amount_to_deposit, payer) ==
    /\ contribute_result(u, amount_to_deposit) = "Ok"
    /\ last' = Call("contribute", u, u, TRUE)
                  @@ [first |-> voucher[u].payer = DefaultPubkey]
    /\ user_wallet' = [user_wallet EXCEPT ![u] = @ - amount_to_deposit]
    /\ bid_wallet' = [bid_wallet EXCEPT !.amount = @ + amount_to_deposit]
    /\ IF voucher[u].payer # DefaultPubkey
       THEN /\ voucher' = [voucher EXCEPT
                             ![u].amount_contributed = @ + amount_to_deposit]
            /\ round' = round
       ELSE /\ voucher' = [voucher EXCEPT ![u] =
                             [open |-> TRUE, user |-> u, payer |-> payer,
                              amount_contributed |->
                                  voucher[u].amount_contributed + amount_to_deposit,
                              is_fiat |-> voucher[u].is_fiat]]
            /\ round' = [round EXCEPT !.vouchers_count = @ + 1]
    /\ UNCHANGED <<now, round_state, offchain_voucher, offer_wallet,
                   user_offer_wallet, recipient_bid, return_wallet, redeemed, calc>>

----------------------------------------------------------------------------
(* lib.rs: refund_bid_to_recipient, withdraw, reject_bid *)

\* both branches (token transfer, or unwrap of wrapped SOL through a
\* temporary account) take voucher.amount_contributed out of the bid wallet
\* and hand it to the user
refund_bid_to_recipient(u) ==
    /\ bid_wallet' = [bid_wallet EXCEPT !.amount = @ - voucher[u].amount_contributed]
    /\ user_wallet' = [user_wallet EXCEPT ![u] = @ + voucher[u].amount_contributed]

withdraw_result(u, user_is_signer) ==
    IF round_state # "open" THEN "AccountNotInitialized"
    ELSE IF ~voucher[u].open THEN "AccountNotInitialized"
    ELSE IF ~bid_wallet.open THEN "AccountNotInitialized"
    ELSE IF assert_can_withdraw(round, now, user_is_signer) # "Ok"
         THEN assert_can_withdraw(round, now, user_is_signer)
    ELSE IF bid_wallet.amount < voucher[u].amount_contributed THEN "InsufficientFunds"
    ELSE IF round.vouchers_count = 0 THEN "Overflow"
    ELSE IF round.status \notin {Pending, Rejected} THEN "Panic"
    ELSE "Ok"

\* the reason reported by WithdrawEvent
withdraw_reason(r, user_is_signer) ==
    IF r.status = Pending /\ user_is_signer THEN "UserInitiated"
    ELSE IF r.status = Pending THEN "HeirTimeout"
    ELSE IF r.status = Rejected THEN "RoundRejected"
    ELSE "unreachable"

\* variant of withdraw that refunds the bid and leaves the voucher open
withdraw_keeps_voucher(u, user_is_signer) ==
    /\ withdraw_result(u, user_is_signer) = "Ok"
    /\ last' = Call("withdraw", u, "any", user_is_signer)
    /\ refund_bid_to_recipient(u)
    /\ UNCHANGED <<now, round_state, round, voucher, offchain_voucher, offer_wallet,
                   user_offer_wallet, recipient_bid, return_wallet, redeemed, calc>>

withdraw(u, user_is_signer) ==
    /\ withdraw_result(u, user_is_signer) = "Ok"
    /\ last' = Call("withdraw", u, "any", user_is_signer)
    /\ refund_bid_to_recipient(u)
    /\ voucher' = [voucher EXCEPT ![u] = NoVoucher]
    /\ round' = [round EXCEPT !.vouchers_count = @ - 1]
    /\ UNCHANGED <<now, round_state, offchain_voucher, offer_wallet,
                   user_offer_wallet, recipient_bid, return_wallet, redeemed, calc>>

reject_bid_result(caller, u) ==
    IF round_state # "open" THEN "AccountNotInitialized"
    ELSE IF round.heir # caller THEN "ConstraintHasOne"
    ELSE IF ~voucher[u].open THEN "AccountNotInitialized"
    ELSE IF ~bid_wallet.open THEN "AccountNotInitialized"
    ELSE IF assert_can_reject_bid(round, now) # "Ok"
         THEN assert_can_reject_bid(round, now)
    ELSE IF bid_wallet.amount < voucher[u].amount_contributed THEN "InsufficientFunds"
    ELSE IF round.vouchers_count = 0 THEN "Overflow"
    ELSE "Ok"

reject_bid(caller, u) ==
    /\ reject_bid_result(caller, u) = "Ok"
    /\ last' = Call("reject_bid", u, caller, FALSE)
    /\ refund_bid_to_recipient(u)
    /\ voucher' = [voucher EXCEPT ![u] = NoVoucher]
    /\ round' = [round EXCEPT !.vouchers_count = @ - 1]
    /\ UNCHANGED <<now, round_state, offchain_voucher, offer_wallet,
                   user_offer_wallet, recipient_bid, return_wallet, redeemed, calc>>

----------------------------------------------------------------------------
(* lib.rs: accept, transfer_bid_to_recipient *)

accept_result(caller) ==
    IF round_state # "open" THEN "AccountNotInitialized"
    ELSE IF round.heir # caller THEN "ConstraintHasOne"
    ELSE IF ~offer_wallet.open \/ ~bid_wallet.open THEN "AccountNotInitialized"
    ELSE assert_can_accept_or_reject(round, now)

\* a wrapped-SOL bid wallet is closed and its balance forwarded; a token
\* bid wallet stays open and is emptied
transfer_bid_to_recipient ==
    /\ recipient_bid' = recipient_bid + bid_wallet.amount
    /\ bid_wallet' = IF bid_wallet.is_native
                     THEN [bid_wallet EXCEPT !.open = FALSE, !.amount = 0]
                     ELSE [bid_wallet EXCEPT !.amount = 0]

\* variant of accept that takes the totals after the bid has been moved
accept_snapshots_after_transfer(caller, reconciliation_authority) ==
    /\ accept_result(caller) = "Ok"
    /\ last' = Call("accept", DefaultPubkey, caller, TRUE)
    /\ transfer_bid_to_recipient
    /\ round' = [round EXCEPT
                    !.total_bid = Some(0),
                    !.total_offer = Some(offer_wallet.amount),
                    !.status = IF reconciliation_authority # DefaultPubkey
                               THEN Reconciliation ELSE Accepted,
                    !.reconciliation_authority =
                        IF reconciliation_authority # DefaultPubkey
                        THEN reconciliation_authority ELSE @]
    /\ UNCHANGED <<now, round_state, voucher, offchain_voucher, offer_wallet,
                   user_wallet, user_offer_wallet, return_wallet, redeemed, calc>>

\* reconciliation_authority: DefaultPubkey stands for the argument None
accept(caller, reconciliation_authority) ==
    /\ accept_result(caller) = "Ok"
    /\ last' = Call("accept", DefaultPubkey, caller, TRUE)
    /\ transfer_bid_to_recipient
    /\ round' = IF reconciliation_authority # DefaultPubkey
                THEN [round EXCEPT
                        !.total_bid = Some(bid_wallet.amount),
                        !.total_offer = Some(offer_wallet.amount),
                        !.status = Reconciliation,
                        !.reconciliation_authority = reconciliation_authority]
                ELSE [round EXCEPT
                        !.total_bid = Some(bid_wallet.amount),
                        !.total_offer = Some(offer_wallet.amount),
                        !.status = Accepted]
    /\ UNCHANGED <<now, round_state, voucher, offchain_voucher, offer_wallet,
                   user_wallet, user_offer_wallet, return_wallet, redeemed, calc>>

----------------------------------------------------------------------------
(* lib.rs: record_offchain_contribution, finish_reconciliation *)

record_offchain_contribution_result(caller, u) ==
    IF round_state # "open" THEN "AccountNotInitialized"
    ELSE IF round.reconciliation_authority # caller THEN "ConstraintHasOne"
    ELSE assert_can_contribute_offchain(round)

\* variants of record_offchain_contribution: one counts a voucher on every
\* call, one lets a later call overwrite the recorded amount
record_offchain_contribution_counts_every_call(caller, u, amount_lamports, payer) ==
    /\ record_offchain_contribution_result(caller, u) = "Ok"
    /\ last' = Call("record_offchain_contribution", u, caller, FALSE)
                  @@ [first |-> offchain_voucher[u].payer = DefaultPubkey,
                      amount |-> amount_lamports]
    /\ offchain_voucher' =
          IF offchain_voucher[u].payer # DefaultPubkey THEN offchain_voucher
          ELSE [offchain_voucher EXCEPT ![u] =
                    [open |-> TRUE, user |-> u, payer |-> payer,
                     amount_contributed |-> amount_lamports, is_fiat |-> TRUE]]
    /\ round' = [round EXCEPT !.vouchers_count = @ + 1]
    /\ UNCHANGED <<now, round_state, voucher, bid_wallet, offer_wallet,
                   user_wallet, user_offer_wallet, recipient_bid, return_wallet,
                   redeemed, calc>>

record_offchain_contribution_overwrites(caller, u, amount_lamports, payer) ==
    /\ record_offchain_contribution_result(caller, u) = "Ok"
    /\ last' = Call("record_offchain_contribution", u, caller, FALSE)
                  @@ [first |-> offchain_voucher[u].payer = DefaultPubkey,
                      amount |-> amount_lamports]
    /\ offchain_voucher' = [offchain_voucher EXCEPT ![u] =
              [open |-> TRUE, user |-> u, payer |-> payer,
               amount_contributed |-> amount_lamports, is_fiat |-> TRUE]]
    /\ round' = IF offchain_voucher[u].payer # DefaultPubkey THEN round
                ELSE [round EXCEPT !.vouchers_count = @ + 1]
    /\ UNCHANGED <<now, round_state, voucher, bid_wallet, offer_wallet,
                   user_wallet, user_offer_wallet, recipient_bid, return_wallet,
                   redeemed, calc>>

record_offchain_contribution(caller, u, amount_lamports, payer) ==
    /\ record_offchain_contribution_result(caller, u) = "Ok"
    /\ last' = Call("record_offchain_contribution", u, caller, FALSE)
                  @@ [first |-> offchain_voucher[u].payer = DefaultPubkey,
                      amount |-> amount_lamports]
    /\ IF offchain_voucher[u].payer # DefaultPubkey
       THEN UNCHANGED <<offchain_voucher, round>>
       ELSE /\ offchain_voucher' = [offchain_voucher EXCEPT ![u] =
                    [open |-> TRUE, user |-> u, payer |-> payer,
                     amount_contributed |-> amount_lamports,
                     is_fiat |-> TRUE]]
            /\ round' = [round EXCEPT !.vouchers_count = @ + 1]
    /\ UNCHANGED <<now, round_state, voucher, bid_wallet, offer_wallet,
                   user_wallet, user_offer_wallet, recipient_bid, return_wallet,
                   redeemed, calc>>

\* variant of finish_reconciliation_result without has_one = reconciliation_authority
finish_reconciliation_result_any_caller(caller) ==
    IF round_state # "open" THEN "AccountNotInitialized"
    ELSE assert_can_finish_reconciliation(round)

finish_reconciliation_result(caller) ==
    IF round_state # "open" THEN "AccountNotInitialized"
    ELSE IF round.reconciliation_authority # caller THEN "ConstraintHasOne"
    ELSE assert_can_finish_reconciliation(round)

finish_reconciliation(caller) ==
    /\ finish_reconciliation_result(caller) = "Ok"
    /\ last' = Call("finish_reconciliation", DefaultPubkey, caller, TRUE)
    /\ round' = [round EXCEPT !.status = Accepted]
    /\ UNCHANGED <<now, round_state, voucher, offchain_voucher, bid_wallet,
                   offer_wallet, user_wallet, user_offer_wallet, recipient_bid,
                   return_wallet, redeemed, calc>>

----------------------------------------------------------------------------
(* lib.rs: reject, transfer_offer_back_to_heir *)

reject_result(caller) ==
    IF round_state # "open" THEN "AccountNotInitialized"
    ELSE IF round.heir # caller THEN "ConstraintHasOne"
    ELSE IF ~offer_wallet.open THEN "AccountNotInitialized"
    ELSE assert_can_accept_or_reject(round, now)

\* variant of transfer_offer_back_to_heir that credits the return wallet and
\* leaves the offer wallet as it was
transfer_offer_back_to_heir_keeps_balance ==
    /\ return_wallet' = return_wallet + offer_wallet.amount
    /\ offer_wallet' = offer_wallet

transfer_offer_back_to_heir ==
    /\ return_wallet' = return_wallet + offer_wallet.amount
    /\ offer_wallet' = [offer_wallet EXCEPT !.amount = 0]

reject(caller) ==
    /\ reject_result(caller) = "Ok"
    /\ last' = Call("reject", DefaultPubkey, caller, TRUE)
    /\ round' = [round EXCEPT !.status = Rejected]
    /\ transfer_offer_back_to_heir
    /\ UNCHANGED <<now, round_state, voucher, offchain_voucher, bid_wallet,
                   user_wallet, user_offer_wallet, recipient_bid, redeemed, calc>>

----------------------------------------------------------------------------
(* lib.rs: redeem, transfer_to_user *)

\* the amount redeem pays for the voucher of u; -1 when the calculation fails
redeem_amount(u) ==
    LET target == IF round.target_bid # 0 THEN round.target_bid
                  ELSE round.total_bid.val
    IN  calculate_redeem_amount(target, round.total_bid.val,
                                voucher[u].amount_contributed,
                                round.total_offer.val)

redeem_result(u) ==
    IF round_state # "open" THEN "AccountNotInitialized"
    ELSE IF ~voucher[u].open THEN "AccountNotInitialized"
    ELSE IF ~offer_wallet.open THEN "AccountNotInitialized"
    ELSE IF assert_can_redeem(round) # "Ok" THEN assert_can_redeem(round)
    ELSE IF redeem_amount(u) = -1 THEN "Overflow"
    ELSE IF round.vouchers_count = 0 THEN "Overflow"
    ELSE IF offer_wallet.amount < redeem_amount(u) THEN "InsufficientFunds"
    ELSE "Ok"

transfer_to_user(u, amount) ==
    /\ offer_wallet' = [offer_wallet EXCEPT !.amount = @ - amount]
    /\ user_offer_wallet' = [user_offer_wallet EXCEPT ![u] = @ + amount]

redeem(u) ==
    /\ redeem_result(u) = "Ok"
    /\ last' = Call("redeem", u, u, TRUE)
    /\ transfer_to_user(u, redeem_amount(u))
    /\ voucher' = [voucher EXCEPT ![u] = NoVoucher]
    /\ round' = [round EXCEPT !.vouchers_count = @ - 1]
    /\ redeemed' = [count |-> redeemed.count + 1,
                    bids |-> redeemed.bids + voucher[u].amount_contributed]
    /\ UNCHANGED <<now, round_state, offchain_voucher, bid_wallet,
                   user_wallet, recipient_bid, return_wallet, calc>>

----------------------------------------------------------------------------
(* lib.rs: cancel, close, migrate *)

\* variant of cancel_result without the assertion on vouchers_count
cancel_result_no_count_check(caller) ==
    IF round_state # "open" THEN "AccountNotInitialized"
    ELSE IF round.heir # caller THEN "ConstraintHasOne"
    ELSE IF ~offer_wallet.open \/ ~bid_wallet.open THEN "AccountNotInitialized"
    ELSE IF assert_can_cancel(round, now) # "Ok" THEN assert_can_cancel(round, now)
    ELSE IF bid_wallet.amount # 0 /\ ~bid_wallet.is_native THEN "NonNativeHasBalance"
    ELSE "Ok"

cancel_result(caller) ==
    IF round_state # "open" THEN "AccountNotInitialized"
    ELSE IF round.heir # caller THEN "ConstraintHasOne"
    ELSE IF ~offer_wallet.open \/ ~bid_wallet.open THEN "AccountNotInitialized"
    ELSE IF assert_can_cancel(round, now) # "Ok" THEN assert_can_cancel(round, now)
    ELSE IF round.vouchers_count # 0 THEN "Panic"
    ELSE IF bid_wallet.amount # 0 /\ ~bid_wallet.is_native THEN "NonNativeHasBalance"
    ELSE "Ok"

cancel(caller) ==
    /\ cancel_result(caller) = "Ok"
    /\ last' = Call("cancel", DefaultPubkey, caller, TRUE)
    /\ return_wallet' = return_wallet + offer_wallet.amount
    /\ offer_wallet' = NoWallet
    /\ bid_wallet' = NoWallet
    /\ round_state' = "closed"
    /\ round' = DefaultRound
    /\ UNCHANGED <<now, voucher, offchain_voucher, user_wallet, user_offer_wallet,
                   recipient_bid, redeemed, calc>>

close_result ==
    IF round_state # "open" THEN "AccountNotInitialized"
    ELSE IF ~offer_wallet.open THEN "AccountNotInitialized"
    ELSE IF assert_can_close(round, now) # "Ok" THEN assert_can_close(round, now)
    ELSE IF bid_wallet.open /\ bid_wallet.amount # 0 /\ ~bid_wallet.is_native
         THEN "NonNativeHasBalance"
    ELSE "Ok"

close ==
    /\ close_result = "Ok"
    /\ last' = Call("close", DefaultPubkey, "any", FALSE)
    /\ return_wallet' = return_wallet + offer_wallet.amount
    /\ offer_wallet' = NoWallet
    /\ bid_wallet' = NoWallet
    /\ round_state' = "closed"
    /\ round' = DefaultRound
    /\ UNCHANGED <<now, voucher, offchain_voucher, user_wallet, user_offer_wallet,
                   recipient_bid, redeemed, calc>>

\* round.return_wallet is set by create_round, so migrate finds nothing to backfill
migrate ==
    /\ round_state = "open"
    /\ last' = Call("migrate", DefaultPubkey, "any", FALSE)
    /\ UNCHANGED <<now, round_state, round, voucher, offchain_voucher, bid_wallet,
                   offer_wallet, user_wallet, user_offer_wallet, recipient_bid,
                   return_wallet, redeemed, calc>>

----------------------------------------------------------------------------
Payers(u) == {u, "relayer"}

Next ==
    \/ Tick
    \/ \E w \in Windows, a \in OfferAmounts, t \in TargetBids, n \in BOOLEAN :
          create_round(w, a, t, n)
    \/ \E u \in Users, a \in 0..UserFunds :
          \E p \in Payers(u) : contribute(u, a, p)
    \/ \E u \in Users, s \in BOOLEAN : withdraw(u, s)
    \/ \E c \in {Heir, Other}, u \in Users : reject_bid(c, u)
    \/ \E c \in {Heir, Other}, ra \in {DefaultPubkey, Oracle} : accept(c, ra)
    \/ \E c \in {Oracle, Other}, u \in Users, a \in 0..MaxOffchain, p \in {"relayer"} :
          record_offchain_contribution(c, u, a, p)
    \/ \E c \in {Oracle, Other} : finish_reconciliation(c)
    \/ \E c \in {Heir, Other} : reject(c)
    \/ \E u \in Users : redeem(u)
    \/ \E c \in {Heir, Other} : cancel(c)
    \/ close
    \/ migrate

Spec == Init /\ [][Next]_vars

----------------------------------------------------------------------------
(* calculate_redeem_amount on its own: the inputs are drawn from the rows  *)
(* of test_calculate_redeem_amount, the example of the specification and   *)
(* every combination of small values; the one action applies the function. *)

\* <<target_bid, bid_balance, user_bid, total_offer, expected>>
RedeemTable ==
    { <<100, 100, 10, 100, 10>>,
      <<1000, 10000, 10000, 100, 100>>,
      <<10000, 10000, 9000, 1000, 900>>,
      <<26250, 10000, 9000, 2500, 857>>,
      <<5500, 25000, 899, 500, 18>> }

\* target_bid = 100, total_bid = 200, user_bid = 50, total_offer = 50
DilutionExample == <<100, 200, 50, 50>>

CalcInputs ==
    {<<r[1], r[2], r[3], r[4]>> : r \in RedeemTable}
    \cup {DilutionExample}
    \cup ((0..MaxCalc) \X (0..MaxCalc) \X (0..MaxCalc) \X (0..MaxCalc))

CalcArgs == <<calc.target_bid, calc.bid_balance, calc.user_bid, calc.total_offer>>

InitCalc ==
    /\ InitRound
    /\ \E i \in CalcInputs :
          calc = [target_bid |-> i[1], bid_balance |-> i[2], user_bid |-> i[3],
                  total_offer |-> i[4], done |-> FALSE, result |-> 0]

Calculate ==
    /\ ~calc.done
    /\ calc' = [calc EXCEPT
                  !.done = TRUE,
                  !.result = calculate_redeem_amount(calc.target_bid, calc.bid_balance,
                                                     calc.user_bid, calc.total_offer)]
    /\ UNCHANGED roundVars

NextCalc == Calculate

SpecCalc == InitCalc /\ [][NextCalc]_vars

----------------------------------------------------------------------------
(* Vesting of the human program: VestState::next_period and the transfer   *)
(* process_vest makes with its result.  The clock, the vest state and the  *)
(* vault are fields of calc; the clock moves on the half-period grid that  *)
(* test_vesting_fuzz takes as its smallest step.                           *)

VESTING_TOTAL_PARTS == 12 * 3
VESTING_PART_LENGTH == 2629800

\* the largest clock step, in half periods
MaxStep == 5

HalfPart == VESTING_PART_LENGTH \div 2

\* the time past which test_vesting_fuzz expects vesting to have completed
VestDeadline(deployed_at) == deployed_at + VESTING_PART_LENGTH * (VESTING_TOTAL_PARTS + 4)

\* floor(self): value / ONE * ONE
PreciseFloor(a) ==
    IF a = PNone THEN PNone ELSE <<0, 0, 0, 0, a[5]>>

\* amount = (vault_supply / remaining_periods) * missed_parts
vest_amount(vault_supply, remaining_periods, missed_parts) ==
    (vault_supply \div remaining_periods) * missed_parts

\* elapsed_parts = min(floor(elapsed / VESTING_PART_LENGTH), VESTING_TOTAL_PARTS)
elapsed_parts(vest, t) ==
    LET parts == ToImprecise(PreciseFloor(PreciseDiv(PreciseNew(t - vest.deployed_at),
                                                     PreciseNew(VESTING_PART_LENGTH))))
    IN  IF parts < VESTING_TOTAL_PARTS THEN parts ELSE VESTING_TOTAL_PARTS

\* VestState::next_period(vault_supply, now): the result, the amount of a
\* Vest result and the vest state the call leaves
next_period(vest, vault_supply, t) ==
    IF vest.vested_periods = VESTING_TOTAL_PARTS
    THEN [result |-> "Completed", amount |-> 0, vest |-> vest]
    ELSE LET parts == elapsed_parts(vest, t)
             missed_parts == IF parts > vest.vested_periods
                             THEN parts - vest.vested_periods ELSE 0
             remaining_periods == VESTING_TOTAL_PARTS - vest.vested_periods
         IN  IF missed_parts = 0
             THEN [result |-> "PeriodVested", amount |-> 0, vest |-> vest]
             ELSE [result |-> "Vest",
                   amount |-> vest_amount(vault_supply, remaining_periods, missed_parts),
                   vest |-> [vest EXCEPT !.vested_periods = @ + missed_parts]]

\* the supplies of the tests of vest.rs, and one that the number of periods
\* does not divide
VestSupplies == {VESTING_TOTAL_PARTS - 1, 1337, 36000, 360000}

\* deployed_at of every test of vest.rs
DeployTimes == {0}

\* a vesting contract right after its creation: nothing vested, the whole
\* supply in the vault
InitVest ==
    /\ InitRound
    /\ \E s \in VestSupplies, d \in DeployTimes :
          calc = [supply |-> s, vault |-> s, owner |-> 0, clock |-> d,
                  vest |-> [deployed_at |-> d, vested_periods |-> 0],
                  result |-> "None", amount |-> 0, before |-> s, sent |-> 0]

\* the clock moves on by dt half periods
VestTick(dt) ==
    /\ calc.clock < VestDeadline(calc.vest.deployed_at)
    /\ calc' = [calc EXCEPT !.clock = @ + dt * HalfPart, !.result = "None",
                            !.amount = 0, !.before = calc.vault]
    /\ UNCHANGED roundVars

\* the clock moves past every period at once
VestJump ==
    /\ calc.clock < VestDeadline(calc.vest.deployed_at)
    /\ calc' = [calc EXCEPT !.clock = VestDeadline(calc.vest.deployed_at),
                            !.result = "None", !.amount = 0, !.before = calc.vault]
    /\ UNCHANGED roundVars

\* process_vest: next_period on the vault balance at the current clock, and
\* the transfer of a Vest result from the vault to the owner's wallet
process_vest ==
    LET r == next_period(calc.vest, calc.vault, calc.clock)
    IN  /\ calc.result # "Completed"
        /\ r.amount <= calc.vault
        /\ calc' = [calc EXCEPT
                      !.vest = r.vest,
                      !.vault = @ - r.amount,
                      !.owner = @ + r.amount,
                      !.result = r.result,
                      !.amount = r.amount,
                      !.before = calc.vault,
                      !.sent = IF r.result = "Vest" THEN @ + 1 ELSE @]
        /\ UNCHANGED roundVars

NextVest ==
    \/ \E dt \in 1..MaxStep : VestTick(dt)
    \/ VestJump
    \/ process_vest

SpecVest == InitVest /\ [][NextVest]_vars

----------------------------------------------------------------------------
(* Distribution of the royalty program: Distribution::distribute_to on the *)
(* vouchers of one drop, as test_distribute sets them up.  calc holds the  *)
(* distribution, the vouchers and what each voucher has been paid.         *)

\* drop_idx, total_tokens and distribute_amount of test_distribute
DropIdx == 123
TotalTokens == 1000
DistributeAmount == 100000

VoucherIds == {"v1", "v2", "v3"}

\* voucher balances: those of test_distribute, and an empty voucher
VoucherBalances == {0, 250, 500}

\* variant of distribute_to that leaves voucher.drop_idx as it was
distribute_to_keeps_drop_idx(ds, v, drop_idx, total_tokens) ==
    IF v.drop_idx # drop_idx
    THEN [err |-> "VoucherNotEligible", lamports |-> 0, ds |-> ds, voucher |-> v]
    ELSE [err |-> "Ok",
          lamports |-> ToImprecise(PreciseMul(PreciseDiv(PreciseNew(v.balance),
                                                         PreciseNew(total_tokens)),
                                              PreciseNew(ds.distribute_amount))),
          ds |-> [ds EXCEPT !.seen_vouchers = @ + 1],
          voucher |-> v]

\* Distribution::distribute_to(voucher, drop_idx, total_tokens): the error
\* or Ok, the lamports of an Ok, and the distribution and the voucher the
\* call leaves.  part = distribute_amount * (balance / total_tokens); the
\* assertion owned_percentage <= 1 panics for a balance above total_tokens.
distribute_to(ds, v, drop_idx, total_tokens) ==
    IF v.drop_idx # drop_idx
    THEN [err |-> "VoucherNotEligible", lamports |-> 0, ds |-> ds, voucher |-> v]
    ELSE LET owned_percentage == PreciseDiv(PreciseNew(v.balance), PreciseNew(total_tokens))
             part == PreciseMul(owned_percentage, PreciseNew(ds.distribute_amount))
         IN  IF owned_percentage = PNone
             THEN [err |-> "Overflow", lamports |-> 0, ds |-> ds, voucher |-> v]
             ELSE IF v.balance > total_tokens
             THEN [err |-> "Panic", lamports |-> 0, ds |-> ds, voucher |-> v]
             ELSE [err |-> "Ok",
                   lamports |-> ToImprecise(part),
                   ds |-> [ds EXCEPT !.seen_vouchers = @ + 1],
                   voucher |-> [v EXCEPT !.drop_idx = @ + 1]]

\* a distribution that has just started, and vouchers of the current drop
\* and of the drop before it
InitDist ==
    /\ InitRound
    /\ \E b \in [VoucherIds -> VoucherBalances],
          d \in [VoucherIds -> {DropIdx - 1, DropIdx}] :
          calc = [ds |-> [distribute_amount |-> DistributeAmount, seen_vouchers |-> 0],
                  vouchers |-> [i \in VoucherIds |-> [balance |-> b[i], drop_idx |-> d[i]]],
                  paid |-> [i \in VoucherIds |-> 0],
                  times |-> [i \in VoucherIds |-> 0],
                  last |-> "none"]

\* a call of distribute_to for voucher i that returns Ok, and the transfer
\* of its lamports to the voucher
Distribute(i) ==
    LET r == distribute_to(calc.ds, calc.vouchers[i], DropIdx, TotalTokens)
    IN  /\ r.err = "Ok"
        /\ calc' = [calc EXCEPT
                      !.ds = r.ds,
                      !.vouchers[i] = r.voucher,
                      !.paid[i] = @ + r.lamports,
                      !.times[i] = @ + 1,
                      !.last = i]
        /\ UNCHANGED roundVars

NextDist == \E i \in VoucherIds : Distribute(i)

SpecDist == InitDist /\ [][NextDist]_vars

----------------------------------------------------------------------------
(* Fanout::calculate_split on its own: the member lists are those the      *)
(* generator of proptest_split builds for 1 to 9 members and one uneven    *)
(* list that initialize admits; the one action applies the function.       *)

\* 100% in basis points
FanoutBsp == 10000

\* the largest amount split
MaxAmount == 20

\* the largest member count of arb_members
MaxMembers == 9

\* arb_members: member i of len gets (target - sum) / (len - i) of what the
\* members before it left; the address of a member is its position
RECURSIVE ArbShares(_, _, _)
ArbShares(len, i, sum) ==
    IF i = len THEN << >>
    ELSE LET x == (FanoutBsp - sum) \div (len - i)
         IN  <<x>> \o ArbShares(len, i + 1, sum + x)

Members(shares) == [i \in 1..Len(shares) |-> [address |-> i, share |-> shares[i]]]

arb_members == {Members(ArbShares(len, 0, 0)) : len \in 1..MaxMembers}

\* a list with a first member of the smallest share initialize admits
UnevenMembers == Members(<<1, 3333, 3333, 3333>>)

\* what a member's share of amount rounds to: share * amount / 10000
share_amount(share, amount) ==
    ToImprecise(PreciseDiv(PreciseMul(PreciseNew(share), PreciseNew(amount)),
                           PreciseNew(FanoutBsp)))

\* the map calculate_split fills member by member, a later member of the
\* same address replacing an earlier one
SplitOf(members, amount) ==
    [a \in {members[i].address : i \in 1..Len(members)} |->
        LET i == CHOOSE k \in 1..Len(members) :
                    /\ members[k].address = a
                    /\ \A j \in (k + 1)..Len(members) : members[j].address # a
        IN  share_amount(members[i].share, amount)]

SplitNone == [some |-> FALSE, split |-> << >>]

\* Fanout::calculate_split(amount): None, or the amount of every address;
\* the difference between amount and the total of the rounded amounts goes
\* to the first member, and the conversion of a negative amount fails
calculate_split(members, amount) ==
    LET split == SplitOf(members, amount)
        total == SumOver(split, DOMAIN split)
        diff == amount - total
        first == members[1].address
        v == split[first] + diff
    IN  IF diff = 0 THEN [some |-> TRUE, split |-> split]
        ELSE IF v < 0 THEN SplitNone
        ELSE [some |-> TRUE, split |-> [split EXCEPT ![first] = v]]

InitFanout ==
    /\ InitRound
    /\ \E m \in arb_members \cup {UnevenMembers}, a \in 0..MaxAmount :
          calc = [members |-> m, amount |-> a, done |-> FALSE, result |-> SplitNone]

Split ==
    /\ ~calc.done
    /\ calc' = [calc EXCEPT !.done = TRUE,
                            !.result = calculate_split(calc.members, calc.amount)]
    /\ UNCHANGED roundVars

NextFanout == Split

SpecFanout == InitFanout /\ [][NextFanout]_vars

----------------------------------------------------------------------------
(* Properties *)

RoundOpen == round_state = "open"

IsPending == RoundOpen /\ round.status = Pending

\* bidding_end < now <= bidding_end + HEIR_TIMEOUT
InHeirWindow ==
    now > round.bidding_end /\ now <= heir_timeout_date(round)

\* the offer asset paid out to users so far
Paid == SumOver(user_offer_wallet, Users)

Abs(x) == IF x < 0 THEN -x ELSE x

\* C1: contribute succeeds only while the status is Pending: in every state
\* whose status is Accepted, Rejected or Reconciliation, contribute fails for
\* every user and every delegated amount, at the current clock value.
C1_ContributeOnlyWhilePending ==
    (RoundOpen /\ round.status \in {Accepted, Rejected, Reconciliation})
        => \A u \in Users, a \in 0..UserFunds : contribute_result(u, a) # "Ok"

\* C2: on a Pending round, at every now <= bidding_end + HEIR_TIMEOUT
\* (now = bidding_end included) a withdraw without the user's signature fails.
C2_UnsignedWithdrawNeedsTimeout ==
    (IsPending /\ now <= heir_timeout_date(round))
        => \A u \in Users : withdraw_result(u, FALSE) # "Ok"

\* C3: on a Pending round, at every now > bidding_end + HEIR_TIMEOUT a
\* withdraw of an open voucher without the user's signature succeeds (as does
\* the time rule at bidding_end = 2000, now = 2,000,000), and the step gives
\* the user the voucher's whole amount_contributed and closes the voucher.
C3_HeirTimeoutEscape ==
    /\ [](/\ assert_can_withdraw([DefaultRound EXCEPT !.bidding_start = 1000,
                                                      !.bidding_end = 2000],
                                 2000000, FALSE) = "Ok"
          /\ \A u \in Users :
                (IsPending /\ now > heir_timeout_date(round) /\ voucher[u].open)
                    => withdraw_result(u, FALSE) = "Ok")
    /\ [][\A u \in Users :
            (/\ last'.op = "withdraw" /\ last'.user = u /\ ~last'.signed
             /\ round.status = Pending /\ now > heir_timeout_date(round))
                => /\ voucher[u].amount_contributed > 0
                   /\ user_wallet'[u] = user_wallet[u] + voucher[u].amount_contributed
                   /\ bid_wallet'.amount = bid_wallet.amount - voucher[u].amount_contributed
                   /\ ~voucher'[u].open]_vars

\* C3 witness: an unsigned withdraw has succeeded on a Pending round past
\* the heir timeout and the user holds all of their funds again
C3_Witness ==
    /\ IsPending /\ now > heir_timeout_date(round)
    /\ last.op = "withdraw" /\ ~last.signed
    /\ user_wallet[last.user] = UserFunds
    /\ ~voucher[last.user].open

\* C4 as stated: with the user's signature, withdraw of an open voucher on a
\* Pending round succeeds at every clock value from bidding_start on.
C4_SignedWithdrawAlways ==
    \A u \in Users :
        (IsPending /\ voucher[u].open /\ now >= round.bidding_start)
            => withdraw_result(u, TRUE) = "Ok"

\* C4 amended: with the user's signature, withdraw of an open voucher on a
\* Pending round succeeds exactly when bidding_start <= now <= bidding_end or
\* now > bidding_end + HEIR_TIMEOUT; inside the heir's decision window it fails.
C4_SignedWithdrawOutsideHeirWindow ==
    \A u \in Users :
        (IsPending /\ voucher[u].open)
            => (withdraw_result(u, TRUE) = "Ok"
                    <=> (now >= round.bidding_start /\ ~InHeirWindow))

\* C4 witness: a signed withdraw has succeeded past the heir timeout while
\* another voucher is still open
C4_Witness ==
    /\ IsPending /\ now > heir_timeout_date(round)
    /\ last.op = "withdraw" /\ last.signed
    /\ \E u \in Users : voucher[u].open

\* C5: on a Pending round inside the heir's decision window the time rule
\* answers InactivityTimeoutHasNotPassed whether or not the user signed, so
\* does withdraw for every open voucher, and no withdraw has happened there;
\* before bidding_start the time rule answers BiddingNotStarted and no
\* withdraw succeeds.
C5_WithdrawBlockedInHeirWindow ==
    /\ (IsPending /\ InHeirWindow)
          => /\ \A s \in BOOLEAN :
                   /\ assert_can_withdraw(round, now, s) = "InactivityTimeoutHasNotPassed"
                   /\ \A u \in Users :
                         voucher[u].open
                             => withdraw_result(u, s) = "InactivityTimeoutHasNotPassed"
             /\ last.op # "withdraw"
    /\ (IsPending /\ now < round.bidding_start)
          => \A s \in BOOLEAN :
                /\ assert_can_withdraw(round, now, s) = "BiddingNotStarted"
                /\ \A u \in Users : withdraw_result(u, s) # "Ok"

\* C5 witness: a Pending round inside the heir's decision window with an
\* open voucher whose signed withdrawal is refused
C5_Witness ==
    /\ IsPending /\ InHeirWindow
    /\ \E u \in Users :
          /\ voucher[u].open
          /\ withdraw_result(u, TRUE) = "InactivityTimeoutHasNotPassed"

\* C6: on a Pending round, at every now <= bidding_end, accept, reject and
\* reject_bid fail with BiddingStillGoing, so a contribution and a heir
\* decision never succeed at the same clock value.
C6_HeirDecisionOnlyAfterBiddingEnd ==
    (IsPending /\ now <= round.bidding_end)
        => /\ accept_result(Heir) = "BiddingStillGoing"
           /\ reject_result(Heir) = "BiddingStillGoing"
           /\ \A u \in Users :
                 voucher[u].open => reject_bid_result(Heir, u) = "BiddingStillGoing"

\* C7: accept on a Pending round whose vouchers_count is 0 fails, and where
\* nothing else stands in its way it fails with CantAcceptZeroOffering.
C7_AcceptZeroPoolFails ==
    (IsPending /\ round.vouchers_count = 0)
        => /\ \A c \in {Heir, Other} : accept_result(c) # "Ok"
           /\ assert_can_accept_or_reject(round, now) = "Ok"
                 => accept_result(Heir) = "CantAcceptZeroOffering"

\* every voucher of an Accepted round has been redeemed, and there was one
AllRedeemed ==
    /\ RoundOpen /\ round.status = Accepted
    /\ round.vouchers_count = 0
    /\ redeemed.count > 0

\* C8 as stated: once every voucher of an Accepted round has been redeemed,
\* the payouts differ from total_offer by at most one unit per voucher
\* redeemed, for every target_bid and every set of contributions.
C8_Conservation ==
    AllRedeemed => Abs(Paid - round.total_offer.val) <= redeemed.count

\* C8 amended: the same bound, for rounds whose target_bid does not exceed
\* total_bid (the amounts of the model are far below the 5 * 10^11 at which
\* the twelve decimals of the share no longer suffice).
C8_ConservationWhenTargetReached ==
    (AllRedeemed /\ round.target_bid <= round.total_bid.val)
        => Abs(Paid - round.total_offer.val) <= redeemed.count

\* C8 witness: two vouchers of 1 and 2 were redeemed against total_offer 2,
\* each payout being a rounded share
C8_Witness ==
    /\ AllRedeemed
    /\ round.target_bid <= round.total_bid.val
    /\ redeemed.bids = round.total_bid.val
    /\ redeemed.count = 2
    /\ round.total_bid.val = 3 /\ round.total_offer.val = 2
    /\ \A u \in Users : user_offer_wallet[u] = 1

\* C9 as stated: the payout is floor(user_bid * total_offer /
\* max(target_bid, total_bid)), never rounded up; 12 for the example.
C9_PayoutIsFloor ==
    (calc.done /\ Max(calc.target_bid, calc.bid_balance) > 0)
        => /\ calc.result = (calc.user_bid * calc.total_offer)
                                \div Max(calc.target_bid, calc.bid_balance)
           /\ CalcArgs = DilutionExample => calc.result = 12

\* the share user_bid / d has at most twelve decimals: user_bid * 10^12 is a
\* multiple of d (computed limb by limb to stay within machine integers)
ShareIsExact(user_bid, d) ==
    ((((((((user_bid % d) * Limb) % d) * Limb) % d) * Limb) % d) * Limb) % d = 0

\* C9 amended: the payout is user_bid * total_offer / max(target_bid,
\* total_bid) rounded to the nearest integer, not down: it differs from the
\* exact quotient by at most 1/2, a fraction above 1/2 is rounded up, and a
\* fraction of exactly 1/2 is rounded up when the share has at most twelve
\* decimals and down otherwise (amounts with d * total_offer below 10^9, far
\* from the 5 * 10^11 where the truncation of the share starts to count);
\* 13 for the example.
C9_PayoutIsNearest ==
    (/\ calc.done
     /\ Max(calc.target_bid, calc.bid_balance) > 0
     /\ Max(calc.target_bid, calc.bid_balance) * calc.total_offer < Limb * Limb * Limb)
        => LET d == Max(calc.target_bid, calc.bid_balance)
               exact == calc.user_bid * calc.total_offer
           IN  /\ 2 * Abs(calc.result * d - exact) <= d
               /\ 2 * (exact % d) > d => calc.result = (exact \div d) + 1
               /\ 2 * (exact % d) < d => calc.result = exact \div d
               /\ 2 * (exact % d) = d =>
                     calc.result = (exact \div d)
                                     + (IF ShareIsExact(calc.user_bid, d) THEN 1 ELSE 0)
               /\ CalcArgs = DilutionExample => calc.result = 13

\* C9 witness: the example has been computed, and it is 13
C9_Witness ==
    calc.done /\ CalcArgs = DilutionExample /\ calc.result = 13

\* C10: calculate_redeem_amount returns the expected value of every row of
\* the authors' table.
C10_RedeemTable ==
    \A r \in RedeemTable :
        (calc.done /\ CalcArgs = <<r[1], r[2], r[3], r[4]>>) => calc.result = r[5]

\* C10 witness: the row with the fractional result 17.98 has been computed
C10_Witness ==
    calc.done /\ CalcArgs = <<5500, 25000, 899, 500>> /\ calc.result = 18

----------------------------------------------------------------------------
(* Totals, vouchers and the status rules *)

\* C11: total_bid and total_offer are both unset while no accept has
\* succeeded (status Pending or Rejected), and a step that changes either of
\* them on a live round is the accept that assigns it for the first time.
C11_TotalsSetOnceAtAccept ==
    /\ []((RoundOpen /\ round.status \in {Pending, Rejected})
             => (round.total_bid = None /\ round.total_offer = None))
    /\ [][(round_state = "open" /\ round_state' = "open")
            => /\ round'.total_bid # round.total_bid
                    => (/\ round.total_bid = None
                        /\ round.status = Pending
                        /\ round'.status \in {Accepted, Reconciliation})
               /\ round'.total_offer # round.total_offer
                    => (/\ round.total_offer = None
                        /\ round.status = Pending
                        /\ round'.status \in {Accepted, Reconciliation})]_vars

\* the voucher accounts that exist, on-ledger and off-chain together
OpenVouchers ==
    Cardinality({u \in Users : voucher[u].open})
        + Cardinality({u \in Users : offchain_voucher[u].open})

\* C12: in every reachable state vouchers_count is the number of voucher
\* accounts that exist (on-ledger and off-chain together); it is never
\* negative.
C12_VouchersCountIsOpenVouchers ==
    /\ round.vouchers_count = OpenVouchers
    /\ round.vouchers_count >= 0

\* C12 witness: after contributions, an off-chain record and one redeem, an
\* on-ledger and an off-chain voucher are left and vouchers_count is 2
C12_Witness ==
    /\ RoundOpen /\ round.status = Accepted
    /\ redeemed.count = 1
    /\ \E u \in Users : voucher[u].open
    /\ \E u \in Users : offchain_voucher[u].open
    /\ round.vouchers_count = 2

\* C13: a contribute by a user who holds a voucher adds the amount to its
\* amount_contributed and leaves vouchers_count and the voucher's payer and
\* user as they were; a contribute by a user without a voucher creates it
\* with the amount and raises vouchers_count by exactly 1.
C13_ContributeAccumulates ==
    [][last'.op = "contribute"
         => LET u == last'.user
                a == user_wallet[u] - user_wallet'[u]
            IN  /\ a > 0
                /\ bid_wallet'.amount = bid_wallet.amount + a
                /\ voucher'[u].open
                /\ voucher'[u].user = u
                /\ IF voucher[u].open
                   THEN /\ voucher'[u].amount_contributed
                              = voucher[u].amount_contributed + a
                        /\ voucher'[u].payer = voucher[u].payer
                        /\ voucher'[u].user = voucher[u].user
                        /\ round'.vouchers_count = round.vouchers_count
                   ELSE /\ voucher'[u].amount_contributed = a
                        /\ voucher'[u].payer \in Payers(u)
                        /\ round'.vouchers_count = round.vouchers_count + 1]_vars

\* C13 witness: a second contribute of a user has succeeded; the voucher
\* holds both amounts, keeps the payer of the first and is counted once
C13_Witness ==
    /\ last.op = "contribute" /\ ~last.first
    /\ voucher[last.user].amount_contributed = UserFunds
    /\ voucher[last.user].payer = "relayer"
    /\ user_wallet[last.user] = 0
    /\ round.vouchers_count = 1

\* C14: a withdraw, reject_bid or redeem of a voucher closes it; while a
\* user has no voucher every withdraw, reject_bid and redeem naming it fails;
\* and a user never holds more bid asset than they started with, so no
\* contribution is refunded twice or both refunded and redeemed.
C14_NoDoubleSpend ==
    /\ [](\A u \in Users :
            /\ ~voucher[u].open
                 => /\ \A s \in BOOLEAN : withdraw_result(u, s) # "Ok"
                    /\ \A c \in {Heir, Other} : reject_bid_result(c, u) # "Ok"
                    /\ redeem_result(u) # "Ok"
            /\ user_wallet[u]
                 + (IF voucher[u].open THEN voucher[u].amount_contributed ELSE 0)
                 <= UserFunds)
    /\ [][/\ last'.op \in {"withdraw", "reject_bid"}
               => /\ voucher[last'.user].open
                  /\ ~voucher'[last'.user].open
                  /\ user_wallet'[last'.user]
                        = user_wallet[last'.user]
                            + voucher[last'.user].amount_contributed
                  /\ bid_wallet'.amount
                        = bid_wallet.amount - voucher[last'.user].amount_contributed
                  /\ user_offer_wallet' = user_offer_wallet
          /\ last'.op = "redeem"
               => /\ voucher[last'.user].open
                  /\ ~voucher'[last'.user].open
                  /\ user_wallet' = user_wallet
                  /\ bid_wallet' = bid_wallet]_vars

\* C14 witness: a voucher has been redeemed for a payout, and a withdraw
\* naming it now fails because the account is gone
C14_Witness ==
    /\ last.op = "redeem"
    /\ ~voucher[last.user].open
    /\ user_offer_wallet[last.user] > 0
    /\ withdraw_result(last.user, TRUE) = "AccountNotInitialized"
    /\ redeem_result(last.user) = "AccountNotInitialized"

\* C15: during Reconciliation a record_offchain_contribution for a user who
\* already has an off-chain voucher succeeds and changes neither the voucher
\* nor vouchers_count; the first call records its amount and counts once.
C15_OffchainRecordedOnce ==
    /\ [](\A u \in Users :
            (RoundOpen /\ round.status = Reconciliation)
                => record_offchain_contribution_result(Oracle, u) = "Ok")
    /\ [][last'.op = "record_offchain_contribution"
            => IF offchain_voucher[last'.user].open
               THEN /\ offchain_voucher' = offchain_voucher
                    /\ round' = round
               ELSE /\ offchain_voucher'[last'.user].open
                    /\ offchain_voucher'[last'.user].amount_contributed = last'.amount
                    /\ offchain_voucher'[last'.user].is_fiat
                    /\ round'.vouchers_count = round.vouchers_count + 1]_vars

\* C15 witness: a second record for the same user, with another amount, has
\* succeeded; the voucher holds the first amount and is counted once
C15_Witness ==
    /\ last.op = "record_offchain_contribution" /\ ~last.first
    /\ offchain_voucher[last.user].open
    /\ last.amount # offchain_voucher[last.user].amount_contributed
    /\ round.vouchers_count = 1

\* C16: while the status is Pending, Rejected or Reconciliation, redeem
\* fails for every user, with CantRedeemNotAcceptedRound where the voucher
\* exists, and no offer asset has reached any contributor.
C16_RedeemOnlyWhenAccepted ==
    (RoundOpen /\ round.status \in {Pending, Rejected, Reconciliation})
        => /\ assert_can_redeem(round) = "CantRedeemNotAcceptedRound"
           /\ \A u \in Users :
                 /\ redeem_result(u) # "Ok"
                 /\ voucher[u].open
                      => redeem_result(u) = "CantRedeemNotAcceptedRound"
           /\ Paid = 0

\* C16 witness: a round in Reconciliation with a voucher whose redeem is
\* refused with CantRedeemNotAcceptedRound
C16_Witness ==
    /\ RoundOpen /\ round.status = Reconciliation
    /\ \E u \in Users :
          /\ voucher[u].open /\ voucher[u].amount_contributed > 0
          /\ redeem_result(u) = "CantRedeemNotAcceptedRound"

\* C17: on an Accepted round, at every now > bidding_end and for either
\* value of the signature flag, the withdraw rule returns
\* CantWithdrawAcceptedOffer.
C17_WithdrawAcceptedErrorName ==
    (RoundOpen /\ round.status = Accepted /\ now > round.bidding_end)
        => \A s \in BOOLEAN :
              assert_can_withdraw(round, now, s) = "CantWithdrawAcceptedOffer"

\* C18: while the status is Reconciliation, contribute, withdraw,
\* reject_bid, accept, reject, redeem, cancel and close all fail, whoever
\* calls them and at the current clock value.
C18_ReconciliationBlocksAll ==
    (RoundOpen /\ round.status = Reconciliation)
        => /\ \A u \in Users, a \in 0..UserFunds : contribute_result(u, a) # "Ok"
           /\ \A u \in Users, s \in BOOLEAN : withdraw_result(u, s) # "Ok"
           /\ \A u \in Users, c \in {Heir, Other} : reject_bid_result(c, u) # "Ok"
           /\ \A c \in {Heir, Other} :
                 /\ accept_result(c) # "Ok"
                 /\ reject_result(c) # "Ok"
                 /\ cancel_result(c) # "Ok"
           /\ \A u \in Users : redeem_result(u) # "Ok"
           /\ close_result # "Ok"

\* C19: on a Rejected round (reached at now >= bidding_end) the withdraw of
\* every existing voucher succeeds at the current clock value, signed or
\* not, and the step returns the voucher's whole amount_contributed.
C19_RejectedWithdrawAnyTime ==
    /\ []((RoundOpen /\ round.status = Rejected)
            => /\ now >= round.bidding_end
               /\ \A u \in Users, s \in BOOLEAN :
                     voucher[u].open => withdraw_result(u, s) = "Ok")
    /\ [][(last'.op = "withdraw" /\ round.status = Rejected)
            => /\ voucher[last'.user].amount_contributed > 0
               /\ user_wallet'[last'.user]
                     = user_wallet[last'.user] + voucher[last'.user].amount_contributed
               /\ bid_wallet'.amount
                     = bid_wallet.amount - voucher[last'.user].amount_contributed
               /\ ~voucher'[last'.user].open]_vars

\* C19 witness: on a round rejected at bidding_end a withdraw without the
\* user's signature has succeeded and the user holds all of their funds
C19_Witness ==
    /\ RoundOpen /\ round.status = Rejected
    /\ now = round.bidding_end
    /\ last.op = "withdraw" /\ ~last.signed
    /\ user_wallet[last.user] = UserFunds
    /\ ~voucher[last.user].open

\* a Pending round whose heir deadline has passed
TimedOut == IsPending /\ now > heir_timeout_date(round)

\* C20: on a Pending round at now > bidding_end + HEIR_TIMEOUT, accept and
\* reject fail with OfferTimedOut and so does reject_bid of any voucher;
\* contribute, redeem, cancel, record_offchain_contribution and
\* finish_reconciliation fail as well, every step leaves the status Pending,
\* and withdraw without signature of any voucher and, once no voucher is
\* left, close succeed.
C20_AbandonedRoundStaysPending ==
    /\ [](TimedOut
            => /\ accept_result(Heir) = "OfferTimedOut"
               /\ reject_result(Heir) = "OfferTimedOut"
               /\ accept_result(Other) # "Ok" /\ reject_result(Other) # "Ok"
               /\ \A u \in Users :
                     /\ voucher[u].open
                          => /\ reject_bid_result(Heir, u) = "OfferTimedOut"
                             /\ withdraw_result(u, FALSE) = "Ok"
                     /\ \A c \in {Heir, Other} : reject_bid_result(c, u) # "Ok"
                     /\ \A a \in 0..UserFunds : contribute_result(u, a) # "Ok"
                     /\ redeem_result(u) # "Ok"
                     /\ \A c \in {Oracle, Other} :
                           record_offchain_contribution_result(c, u) # "Ok"
               /\ \A c \in {Heir, Other} : cancel_result(c) # "Ok"
               /\ \A c \in {Oracle, Other} : finish_reconciliation_result(c) # "Ok"
               /\ round.vouchers_count = 0 => close_result = "Ok")
    /\ [][(TimedOut /\ round_state' = "open") => round'.status = Pending]_vars

\* C20 witness: past the heir deadline the last voucher of a Pending round
\* has been withdrawn and the round can be closed
C20_Witness ==
    /\ TimedOut
    /\ last.op = "withdraw"
    /\ round.vouchers_count = 0
    /\ accept_result(Heir) = "OfferTimedOut"
    /\ close_result = "Ok"

----------------------------------------------------------------------------
(* The bidding window, cancel, close and the reconciliation instructions *)

\* C21: on a Pending round contribute fails with BiddingNotStarted at every
\* now < bidding_start, with BiddingEnded at every now > bidding_end, and
\* succeeds for every amount from 1 up to the user's funds at every now in
\* [bidding_start, bidding_end], both endpoints included.
C21_ContributeWindow ==
    IsPending
        => \A u \in Users :
              /\ now < round.bidding_start
                   => \A a \in 0..UserFunds :
                         contribute_result(u, a) = "BiddingNotStarted"
              /\ now > round.bidding_end
                   => \A a \in 0..UserFunds :
                         contribute_result(u, a) = "BiddingEnded"
              /\ (round.bidding_start <= now /\ now <= round.bidding_end)
                   => \A a \in 1..user_wallet[u] : contribute_result(u, a) = "Ok"

\* C21 witness: a contribute has succeeded on a Pending round at
\* now = bidding_end, the last instant of the window
C21_Witness ==
    /\ IsPending
    /\ now = round.bidding_end
    /\ last.op = "contribute"
    /\ voucher[last.user].open

C23_CancelNeedsEmptyPool ==
    (RoundOpen /\ round.vouchers_count >= 1)
        => \A c \in {Heir, Other} : cancel_result(c) # "Ok"

\* C23 witness: a voucher exists at now = bidding_start, where the time rule
\* of cancel still passes, and the heir's cancel is stopped by the assertion
\* on vouchers_count
C23_Witness ==
    /\ IsPending
    /\ round.vouchers_count = 1
    /\ assert_can_cancel(round, now) = "Ok"
    /\ cancel_result(Heir) = "Panic"

\* the condition under which C24 expects close to succeed
CanCloseByRule ==
    /\ round.vouchers_count = 0
    /\ \/ round.status \in {Accepted, Rejected}
       \/ round.status = Pending /\ now > heir_timeout_date(round)

\* C24: close succeeds exactly when vouchers_count = 0 and the status is
\* Accepted or Rejected, or Pending past the heir timeout; it fails with
\* VouchersNotWithdrawn while vouchers_count > 0, with
\* CantCloseBeforeHeirTimeout on an empty Pending round up to the deadline,
\* and always during Reconciliation; a close returns the rest of the offer
\* to return_wallet and removes the round.
C24_CloseExactlyWhenEmptyAndDecided ==
    /\ [](RoundOpen
            => /\ (close_result = "Ok") <=> CanCloseByRule
               /\ round.vouchers_count > 0 => close_result = "VouchersNotWithdrawn"
               /\ (/\ round.status = Pending
                   /\ round.vouchers_count = 0
                   /\ now <= heir_timeout_date(round))
                    => close_result = "CantCloseBeforeHeirTimeout"
               /\ round.status = Reconciliation => close_result # "Ok")
    /\ [][last'.op = "close"
            => /\ return_wallet' = return_wallet + offer_wallet.amount
               /\ round_state' = "closed"]_vars

\* C25: a finish_reconciliation succeeds only on a round in Reconciliation
\* and only for the stored reconciliation_authority; it sets the status to
\* Accepted and changes nothing else; in every other status, and for every
\* other caller, it fails.
C25_FinishReconciliationFrame ==
    /\ [](/\ (RoundOpen /\ round.status # Reconciliation)
               => \A c \in {Oracle, Other} : finish_reconciliation_result(c) # "Ok"
          /\ (RoundOpen /\ round.status = Reconciliation)
               => /\ finish_reconciliation_result(round.reconciliation_authority) = "Ok"
                  /\ \A c \in {Oracle, Other, Heir} \ {round.reconciliation_authority} :
                        finish_reconciliation_result(c) # "Ok")
    /\ [][last'.op = "finish_reconciliation"
            => /\ round.status = Reconciliation
               /\ last'.caller = round.reconciliation_authority
               /\ round' = [round EXCEPT !.status = Accepted]
               /\ UNCHANGED <<round_state, voucher, offchain_voucher, bid_wallet,
                              offer_wallet, user_wallet, user_offer_wallet,
                              recipient_bid, return_wallet>>]_vars

\* C25 witness: the authority has finished the reconciliation of a round
\* with an off-chain voucher; the round is Accepted with its totals and its
\* voucher as they were
C25_Witness ==
    /\ last.op = "finish_reconciliation"
    /\ round.status = Accepted
    /\ round.total_bid.some /\ round.total_offer.some
    /\ \E u \in Users : offchain_voucher[u].open
    /\ round.vouchers_count = OpenVouchers

\* C26: record_offchain_contribution fails unless the status is
\* Reconciliation and the caller is the stored reconciliation_authority; a
\* successful call leaves both custody wallets, every user's funds,
\* total_bid and total_offer unchanged.
C26_OffchainRecordMovesNothing ==
    /\ [](\A u \in Users :
            /\ (RoundOpen /\ round.status # Reconciliation)
                 => \A c \in {Oracle, Other} :
                       record_offchain_contribution_result(c, u) # "Ok"
            /\ RoundOpen
                 => \A c \in {Oracle, Other, Heir} \ {round.reconciliation_authority} :
                       record_offchain_contribution_result(c, u) # "Ok")
    /\ [][last'.op = "record_offchain_contribution"
            => /\ round.status = Reconciliation
               /\ last'.caller = round.reconciliation_authority
               /\ round'.total_bid = round.total_bid
               /\ round'.total_offer = round.total_offer
               /\ round'.status = round.status
               /\ UNCHANGED <<bid_wallet, offer_wallet, user_wallet,
                              user_offer_wallet, recipient_bid, return_wallet,
                              voucher>>]_vars

\* C26 witness: an off-chain contribution has been recorded for a user
\* while the bid already sits with the recipient and the offer in custody
C26_Witness ==
    /\ last.op = "record_offchain_contribution" /\ last.first
    /\ round.status = Reconciliation
    /\ offchain_voucher[last.user].amount_contributed = MaxOffchain
    /\ recipient_bid > 0
    /\ offer_wallet.amount = round.total_offer.val

\* C27: before the round exists, create_round fails with NoDelegatedAmount
\* for a delegated amount of zero and with SuspiciousOfferInterval for a
\* non-zero amount and bidding_start >= bidding_end; a create_round that
\* succeeds leaves a Pending round with bidding_start < bidding_end and
\* vouchers_count = 0 whose offer wallet holds exactly the delegated amount,
\* taken from the source wallet.
C27_CreateRoundValidates ==
    /\ [](round_state = "uninit"
            => \A w \in Windows, a \in OfferAmounts :
                  /\ a = 0 => create_round_result(w, a) = "NoDelegatedAmount"
                  /\ (a # 0 /\ w[1] >= w[2])
                       => create_round_result(w, a) = "SuspiciousOfferInterval"
                  /\ (a # 0 /\ w[1] < w[2]) => create_round_result(w, a) = "Ok")
    /\ [][last'.op = "create_round"
            => /\ round_state = "uninit" /\ round_state' = "open"
               /\ round'.status = Pending
               /\ round'.vouchers_count = 0
               /\ round'.bidding_start < round'.bidding_end
               /\ offer_wallet'.open
               /\ offer_wallet'.amount > 0
               /\ offer_wallet'.amount = return_wallet - return_wallet'
               /\ bid_wallet'.open /\ bid_wallet'.amount = 0]_vars

\* C27 witness: a round has just been created with the whole delegated
\* amount in its offer wallet
C27_Witness ==
    /\ last.op = "create_round"
    /\ IsPending
    /\ round.vouchers_count = 0
    /\ offer_wallet.amount = MaxOffer
    /\ return_wallet = 0

\* C28: vesting runs to completion without loss.  Over every sequence of
\* next_period calls at a clock that never goes back, with the vault reduced
\* by each vested amount: vested_periods never decreases and never exceeds
\* VESTING_TOTAL_PARTS, each vested amount is at most the vault balance it
\* is taken from, at most VESTING_TOTAL_PARTS calls return Vest, and once
\* Completed is returned the total vested differs from the initial supply
\* by at most one unit.
C28_VestingCompletesWithoutLoss ==
    /\ [](/\ calc.vest.vested_periods <= VESTING_TOTAL_PARTS
          /\ calc.amount <= calc.before
          /\ calc.sent <= VESTING_TOTAL_PARTS
          /\ calc.result = "Completed" => Abs(calc.supply - calc.owner) <= 1)
    /\ [][/\ calc'.clock >= calc.clock
          /\ calc'.vest.vested_periods >= calc.vest.vested_periods]_vars

\* the parts of C28 that do not depend on how much the last call pays
VestingIsMonotoneAndBounded ==
    /\ [](/\ calc.vest.vested_periods <= VESTING_TOTAL_PARTS
          /\ calc.amount <= calc.before
          /\ calc.sent <= VESTING_TOTAL_PARTS
          /\ calc.vault + calc.owner = calc.supply)
    /\ [][/\ calc'.clock >= calc.clock
          /\ calc'.vest.vested_periods >= calc.vest.vested_periods]_vars

\* vesting has completed with more than one unit left in the vault
VestingCompletedWithLoss ==
    /\ calc.result = "Completed"
    /\ calc.vault > 1

\* C29: distribute_to pays a voucher at most once per drop.  A successful
\* call increments the voucher's drop_idx and seen_vouchers by 1; a call for
\* a voucher whose drop_idx differs from the current one (a voucher already
\* paid in this drop among them) fails with VoucherNotEligible and leaves
\* the voucher and seen_vouchers unchanged.
C29_PaidOncePerDrop ==
    /\ [](\A i \in VoucherIds :
            LET r == distribute_to(calc.ds, calc.vouchers[i], DropIdx, TotalTokens)
            IN  /\ calc.times[i] <= 1
                /\ calc.times[i] = 1 => calc.vouchers[i].drop_idx = DropIdx + 1
                /\ calc.vouchers[i].drop_idx # DropIdx
                     => /\ r.err = "VoucherNotEligible"
                        /\ r.voucher = calc.vouchers[i]
                        /\ r.ds = calc.ds)
    /\ [][\A i \in VoucherIds :
            calc'.last = i /\ calc'.times[i] # calc.times[i]
              => /\ calc.vouchers[i].drop_idx = DropIdx
                 /\ calc'.vouchers[i].drop_idx = calc.vouchers[i].drop_idx + 1
                 /\ calc'.ds.seen_vouchers = calc.ds.seen_vouchers + 1
                 /\ \A j \in VoucherIds \ {i} : calc'.vouchers[j] = calc.vouchers[j]]_vars

\* C29 witness: the voucher holding half of the tokens has been paid its
\* 50000 lamports, and a second call for it is refused
C29_Witness ==
    /\ calc.last = "v1"
    /\ calc.vouchers["v1"].balance = 500
    /\ calc.paid["v1"] = 50000
    /\ calc.ds.seen_vouchers = 2
    /\ distribute_to(calc.ds, calc.vouchers["v1"], DropIdx, TotalTokens).err
         = "VoucherNotEligible"

\* members 2.. are paid what their share rounds to, the first member the
\* rest of the amount
FirstTakesDifference ==
    LET m == calc.members
        others == SumOver([i \in 2..Len(m) |-> share_amount(m[i].share, calc.amount)],
                          2..Len(m))
    IN  /\ \A i \in 2..Len(m) :
              calc.result.split[m[i].address] = share_amount(m[i].share, calc.amount)
        /\ calc.result.split[m[1].address] = calc.amount - others

\* C30: calculate_split(amount), for 1 to 9 members with distinct addresses
\* whose shares sum to 10000, returns per-member amounts whose sum is amount
\* exactly, the rounding difference going to the first member.
C30_SplitSumsToAmount ==
    calc.done
      => /\ calc.result.some
         /\ SumOver(calc.result.split, DOMAIN calc.result.split) = calc.amount
         /\ FirstTakesDifference

\* whenever calculate_split returns a split, it is the one C30 describes
SplitIsExactWhenReturned ==
    (calc.done /\ calc.result.some)
      => /\ SumOver(calc.result.split, DOMAIN calc.result.split) = calc.amount
         /\ FirstTakesDifference

\* proptest_split's nine members and an amount of its range for which
\* calculate_split returns None
SplitFailsForNineMembers ==
    /\ calc.done
    /\ calc.members = Members(ArbShares(9, 0, 0))
    /\ calc.amount = 14
    /\ ~calc.result.some

\* the status changes the code makes, as <<from, to, instruction>>
StatusEdges ==
    { <<Pending, Accepted, "accept">>,
      <<Pending, Reconciliation, "accept">>,
      <<Pending, Rejected, "reject">>,
      <<Reconciliation, Accepted, "finish_reconciliation">> }

\* C31: while the round exists its status changes only along Pending ->
\* Accepted (accept without authority), Pending -> Reconciliation (accept
\* with an authority), Pending -> Rejected (reject) and Reconciliation ->
\* Accepted (finish_reconciliation); an Accepted or Rejected status never
\* changes again; accept and reject succeed only on a Pending round and
\* leave it not Pending, so at most once per round; contribute, withdraw,
\* reject_bid, redeem, record_offchain_contribution and migrate never change
\* the status.
C31_StatusTransitions ==
    [][(RoundOpen /\ round_state' = "open")
         => /\ round'.status # round.status
                 => <<round.status, round'.status, last'.op>> \in StatusEdges
            /\ round.status \in {Accepted, Rejected} => round'.status = round.status
            /\ round.status # Pending => round'.status # Pending
            /\ last'.op \in {"accept", "reject"}
                 => (vars' = vars
                       \/ (round.status = Pending /\ round'.status # Pending))
            /\ last'.op = "accept"
                 => (vars' = vars
                       \/ round'.status
                            = IF round'.reconciliation_authority # DefaultPubkey
                              THEN Reconciliation ELSE Accepted)
            /\ last'.op \in {"contribute", "withdraw", "reject_bid", "redeem",
                             "record_offchain_contribution", "migrate"}
                 => round'.status = round.status]_vars

\* C31 witness: the round has gone Pending -> Reconciliation -> Accepted,
\* with a contribution recorded in between
C31_Witness ==
    /\ RoundOpen
    /\ last.op = "finish_reconciliation"
    /\ round.status = Accepted
    /\ round.reconciliation_authority = Oracle
    /\ \E u \in Users : offchain_voucher[u].open

\* the sum of amount_contributed over the open on-ledger vouchers
OpenBids ==
    SumOver([u \in Users |-> voucher[u].amount_contributed],
            {u \in Users : voucher[u].open})

\* C32: a successful accept sets total_bid to the bid wallet balance and
\* total_offer to the offer wallet balance as they were right before the
\* call, moves the whole bid balance to the recipient and leaves the bid
\* wallet at 0, leaves the offer wallet and every voucher as they were; the
\* recorded total_bid is the sum of amount_contributed over the vouchers
\* open at that moment.
C32_AcceptSnapshotsTotals ==
    [][last'.op = "accept"
         => /\ round'.total_bid = Some(bid_wallet.amount)
            /\ round'.total_offer = Some(offer_wallet.amount)
            /\ recipient_bid' = recipient_bid + bid_wallet.amount
            /\ bid_wallet'.amount = 0
            /\ offer_wallet' = offer_wallet
            /\ voucher' = voucher
            /\ offchain_voucher' = offchain_voucher
            /\ round'.total_bid.val = OpenBids]_vars

\* C32 witness: accept has just recorded a pool of two contributions and
\* handed it to the recipient
C32_Witness ==
    /\ last.op = "accept"
    /\ round.total_bid = Some(2 * UserFunds)
    /\ round.total_offer = Some(MaxOffer)
    /\ recipient_bid = 2 * UserFunds
    /\ bid_wallet.amount = 0
    /\ offer_wallet.amount = MaxOffer
    /\ \A u \in Users : voucher[u].open

\* the step closes the on-ledger voucher of u the way withdraw does: u
\* receives amount_contributed from the bid wallet, the voucher is closed,
\* vouchers_count drops by 1, and nothing else of the round changes
ForcedWithdrawal(u) ==
    /\ voucher[u].open
    /\ user_wallet' = [user_wallet EXCEPT ![u] = @ + voucher[u].amount_contributed]
    /\ bid_wallet' = [bid_wallet EXCEPT !.amount = @ - voucher[u].amount_contributed]
    /\ bid_wallet'.amount >= 0
    /\ voucher' = [voucher EXCEPT ![u] = NoVoucher]
    /\ round' = [round EXCEPT !.vouchers_count = @ - 1]
    /\ UNCHANGED <<round_state, offchain_voucher, offer_wallet, user_offer_wallet,
                   recipient_bid, return_wallet, redeemed>>

\* C33: reject_bid succeeds only when called by the heir on a Pending round
\* inside the post-bidding, pre-timeout window (bidding_end < now <=
\* bidding_end + HEIR_TIMEOUT); it then has exactly the effect of a withdraw
\* of that one voucher and leaves the status Pending and every other
\* voucher unchanged.
C33_RejectBidIsForcedWithdraw ==
    [][last'.op = "reject_bid"
         => /\ last'.caller = round.heir
            /\ IsPending /\ round'.status = Pending
            /\ InHeirWindow
            /\ ForcedWithdrawal(last'.user)]_vars

\* C33 with the window the code applies, bidding_end <= now <= bidding_end +
\* HEIR_TIMEOUT
RejectBidIsForcedWithdrawFromBiddingEnd ==
    [][last'.op = "reject_bid"
         => /\ last'.caller = round.heir
            /\ IsPending /\ round'.status = Pending
            /\ now >= round.bidding_end /\ now <= heir_timeout_date(round)
            /\ ForcedWithdrawal(last'.user)]_vars

\* the heir has rejected a bid at now = bidding_end, where contribute still
\* succeeds
RejectBidWhileBiddingOpen ==
    /\ last.op = "reject_bid"
    /\ now = round.bidding_end
    /\ \E u \in Users : contribute_result(u, 1) = "Ok"

\* the reason of the withdraw this step makes is the one its status and
\* signature call for, and never the unreachable arm
ReasonMatchesStatus ==
    LET reason == withdraw_reason(round, last'.signed)
    IN  /\ reason \in {"UserInitiated", "HeirTimeout", "RoundRejected"}
        /\ reason = "RoundRejected" <=> round.status = Rejected
        /\ round.status = Pending
             => /\ reason = "UserInitiated" <=> last'.signed
                /\ reason = "HeirTimeout" <=> ~last'.signed
        /\ round.status \notin {Accepted, Reconciliation}

\* C34: every successful withdraw is classified in exactly one way:
\* RoundRejected iff the status is Rejected; on a Pending round
\* UserInitiated iff the user signed and HeirTimeout iff the user did not;
\* HeirTimeout is reported only when now > bidding_end + HEIR_TIMEOUT, and
\* the unreachable arm (status Accepted or Reconciliation) is never reached.
C34_WithdrawReason ==
    [][last'.op = "withdraw"
         => /\ ReasonMatchesStatus
            /\ withdraw_reason(round, last'.signed) = "HeirTimeout"
                 => now > heir_timeout_date(round)]_vars

\* C34 without the clock condition of HeirTimeout
WithdrawReasonMatchesStatus ==
    [][last'.op = "withdraw" => ReasonMatchesStatus]_vars

\* a withdraw without the user's signature has succeeded at now =
\* bidding_end on a Pending round: its reason is HeirTimeout
HeirTimeoutReportedAtBiddingEnd ==
    /\ last.op = "withdraw" /\ ~last.signed
    /\ IsPending
    /\ now = round.bidding_end
    /\ withdraw_reason(round, last.signed) = "HeirTimeout"

\* the instructions that name one voucher
VoucherOps ==
    {"contribute", "withdraw", "reject_bid", "redeem", "record_offchain_contribution"}

\* the outcomes, in the current state, of every instruction that names the
\* voucher of v, and what a redeem of v would pay
OutcomesFor(v) ==
    [contribute |-> [a \in 0..UserFunds |-> contribute_result(v, a)],
     withdraw |-> [sg \in BOOLEAN |-> withdraw_result(v, sg)],
     reject_bid |-> [c \in {Heir, Other} |-> reject_bid_result(c, v)],
     record |-> [c \in {Oracle, Other} |-> record_offchain_contribution_result(c, v)],
     voucher |-> voucher[v],
     offchain_voucher |-> offchain_voucher[v],
     user_wallet |-> user_wallet[v],
     user_offer_wallet |-> user_offer_wallet[v]]

RedeemOutcomeFor(v) ==
    [redeem |-> redeem_result(v),
     amount |-> IF redeem_result(v) = "Ok" THEN redeem_amount(v) ELSE 0]

\* C35: order independence.  A successful instruction on the voucher of one
\* user changes, for every other user, neither the outcome of any
\* instruction on that user's voucher at the same clock value nor the
\* accounts and the amount that instruction works with; so the two serial
\* orders of two such instructions give the same outcomes and the same
\* final state.
C35_OrderIndependence ==
    [][last'.op \in VoucherOps
         => \A v \in Users \ {last'.user} :
               /\ OutcomesFor(v)' = OutcomesFor(v)
               /\ RedeemOutcomeFor(v)' = RedeemOutcomeFor(v)]_vars

\* C35 for every pair of instructions other than two redeems
OrderIndependenceButRedeem ==
    [][last'.op \in VoucherOps
         => \A v \in Users \ {last'.user} :
               /\ OutcomesFor(v)' = OutcomesFor(v)
               /\ last'.op # "redeem" => RedeemOutcomeFor(v)' = RedeemOutcomeFor(v)]_vars

\* one user has redeemed and the redeem of the other, which would have
\* succeeded had it come first, now fails for lack of offer funds
SecondRedeemStarved ==
    /\ last.op = "redeem"
    /\ \E v \in Users \ {last.user} :
          /\ voucher[v].open
          /\ redeem_result(v) = "InsufficientFunds"
          /\ redeem_amount(v) <= offer_wallet.amount + user_offer_wallet[last.user]

\* what the open on-ledger vouchers would be paid by redeem
OwedToOpenVouchers ==
    SumOver([u \in Users |-> redeem_amount(u)], {u \in Users : voucher[u].open})

\* C36: redemption solvency.  In every state of an Accepted round the offer
\* wallet holds at least the sum of the redeem amounts of the vouchers still
\* open, so no redeem fails for lack of offer funds and every holder can
\* redeem in any order; the payouts made so far never exceed total_offer.
C36_RedemptionSolvency ==
    (RoundOpen /\ round.status = Accepted)
        => /\ offer_wallet.amount >= OwedToOpenVouchers
           /\ \A u \in Users : voucher[u].open => redeem_result(u) = "Ok"
           /\ Paid <= round.total_offer.val

\* the part of C36 that holds: payouts never exceed total_offer
PayoutsWithinTotalOffer ==
    (RoundOpen /\ round.status = Accepted) => Paid <= round.total_offer.val

\* an Accepted round whose pool was the two open vouchers, each owed more
\* than half of the offer wallet
OfferOverPromised ==
    /\ RoundOpen /\ round.status = Accepted
    /\ round.total_bid.val = OpenBids
    /\ redeemed.count = 0
    /\ \A u \in Users : voucher[u].open /\ redeem_result(u) = "Ok"
    /\ OwedToOpenVouchers > offer_wallet.amount

\* some instruction closes the off-chain voucher of u in the current state
OffchainVoucherClosable(u) ==
    ENABLED (Next /\ ~offchain_voucher'[u].open)

\* C37: every voucher counted in vouchers_count can be closed by some
\* instruction: on an Accepted round redeem applies to every open voucher,
\* those created by record_offchain_contribution included, so that
\* vouchers_count can be driven to 0 and close becomes enabled.
C37_EveryVoucherCanBeClosed ==
    (RoundOpen /\ round.status = Accepted)
        => \A u \in Users :
              /\ voucher[u].open => redeem_result(u) = "Ok"
              /\ offchain_voucher[u].open => OffchainVoucherClosable(u)

\* an off-chain voucher, once open, stays open and counted for as long as
\* the round exists, so close stays disabled
OffchainVoucherNeverCloses ==
    /\ [][\A u \in Users :
            (offchain_voucher[u].open /\ round_state' = "open")
                => offchain_voucher'[u].open]_vars
    /\ []((RoundOpen /\ \E u \in Users : offchain_voucher[u].open)
            => (round.vouchers_count >= 1 /\ close_result # "Ok"))

\* reconciliation has finished, every on-ledger voucher has been redeemed,
\* and the off-chain voucher still blocks close
RoundStuckOnOffchainVoucher ==
    /\ RoundOpen /\ round.status = Accepted
    /\ \A u \in Users : ~voucher[u].open
    /\ \E u \in Users : offchain_voucher[u].open
    /\ redeemed.count >= 1
    /\ close_result = "VouchersNotWithdrawn"

\* on a Pending or Rejected round the bid wallet holds exactly the open
\* on-ledger vouchers, so no refund fails for lack of bid funds and the last
\* refund leaves the bid wallet at 0
BidWalletBacksVouchers ==
    (RoundOpen /\ round.status \in {Pending, Rejected})
        => /\ bid_wallet.amount = OpenBids
           /\ \A u \in Users, sg \in BOOLEAN :
                 withdraw_result(u, sg) # "InsufficientFunds"
           /\ \A u \in Users : reject_bid_result(Heir, u) # "InsufficientFunds"
           /\ (\A u \in Users : ~voucher[u].open) => bid_wallet.amount = 0

\* C38: whenever the status is Pending or Rejected the bid wallet balance
\* is the sum of amount_contributed over the open on-ledger vouchers, so
\* withdraw and reject_bid never fail for lack of bid funds and the last
\* withdrawal leaves the bid wallet at exactly 0; whenever the status is
\* Accepted the bid wallet balance is 0.
C38_BidWalletMatchesVouchers ==
    /\ BidWalletBacksVouchers
    /\ (RoundOpen /\ round.status = Accepted) => bid_wallet.amount = 0

\* a contribution has been taken into the bid wallet of an Accepted round
ContributionAfterAccept ==
    /\ RoundOpen /\ round.status = Accepted
    /\ last.op = "contribute"
    /\ bid_wallet.amount > 0
    /\ bid_wallet.amount = OpenBids - round.total_bid.val

\* the offer amount create_round escrowed for the round that exists, and
\* what has come back to the return wallet since
Escrowed == round.total_offer.val

ReturnedToHeir == return_wallet - (MaxOffer - Escrowed)

\* C39: offer conservation.  In every state the offer amount escrowed by
\* create_round is the offer wallet balance plus what redeem has paid out
\* plus what reject, cancel and close have returned to the return wallet
\* (so the offer asset of the source wallet is never created or lost); when
\* the round is closed the offer wallet is empty.
C39_OfferConservation ==
    /\ return_wallet + offer_wallet.amount + Paid = MaxOffer
    /\ RoundOpen
         => /\ round.total_offer.some
            /\ ReturnedToHeir >= 0
            /\ Escrowed = offer_wallet.amount + Paid + ReturnedToHeir
    /\ round_state = "closed"
         => /\ ~offer_wallet.open
            /\ offer_wallet.amount = 0
            /\ return_wallet + Paid = MaxOffer
    /\ round_state = "uninit" => return_wallet = MaxOffer

\* C39 witness: the round has been closed after a redeem; part of the offer
\* was paid out and the rest has come back
C39_Witness ==
    /\ round_state = "closed"
    /\ last.op = "close"
    /\ Paid >= 1
    /\ return_wallet >= 1
    /\ return_wallet + Paid = MaxOffer

\* C40: cancel checks only the clock, never the status, and still succeeds
\* only on a Pending round: the status leaves Pending only at a clock value
\* now >= bidding_end > bidding_start, from which on cancel's time check
\* fails; an Accepted, Rejected or Reconciliation round is never cancelled.
C40_CancelOnlyWhilePending ==
    /\ []((RoundOpen /\ round.status # Pending)
            => /\ now >= round.bidding_end
               /\ round.bidding_end > round.bidding_start
               /\ assert_can_cancel(round, now) = "CantCancelStartedRound"
               /\ \A c \in {Heir, Other} : cancel_result(c) # "Ok")
    /\ [][/\ (RoundOpen /\ round.status = Pending /\ round'.status # Pending)
               => now >= round.bidding_end
          /\ last'.op = "cancel"
               => (vars' = vars \/ (RoundOpen /\ round.status = Pending))]_vars

\* C40 witness: the heir has accepted an empty round, and the cancel that
\* would pass every other check is refused by the clock
C40_Witness ==
    /\ RoundOpen
    /\ last.op = "accept"
    /\ round.status = Accepted
    /\ round.vouchers_count = 0
    /\ bid_wallet.amount = 0
    /\ cancel_result(Heir) = "CantCancelStartedRound"
    /\ cancel_result_no_count_check(Heir) = "CantCancelStartedRound"

====
